---- MODULE Spec2Model ----
(***************************************************************************)
(* charon-key: the key-resolution pipeline of one AuthorizedKeysCommand    *)
(* invocation (cmd/charon-key/main.go) over the cache directory it shares  *)
(* with earlier invocations: identity mapping lookup, per-identity         *)
(* cache-or-fetch with retry, stale-cache fallback, validation, merge with *)
(* the local authorized_keys file and the write to standard output.        *)
(*                                                                         *)
(* A Go string is a sequence of one-character strings, so that the string  *)
(* functions the code calls (TrimSpace, HasPrefix, Fields, the line        *)
(* scanner, Join) are computed on characters as the library computes them. *)
(***************************************************************************)
EXTENDS Integers, Sequences, FiniteSets, TLC

----------------------------------------------------------------------------
(* Characters and the library string functions.                            *)

SP == <<" ">>
NL == <<"\n">>

\* unicode.IsSpace on the characters that occur in the inputs
IsSpace(c) == c \in {" ", "\t", "\n", "\r"}

RECURSIVE TrimLeft(_)
TrimLeft(s) ==
    IF s = <<>> THEN <<>>
    ELSE IF IsSpace(Head(s)) THEN TrimLeft(Tail(s)) ELSE s

RECURSIVE TrimRight(_)
TrimRight(s) ==
    IF s = <<>> THEN <<>>
    ELSE IF IsSpace(s[Len(s)]) THEN TrimRight(SubSeq(s, 1, Len(s) - 1)) ELSE s

\* strings.TrimSpace
TrimSpace(s) == TrimRight(TrimLeft(s))

\* strings.HasPrefix
HasPrefix(s, prefix) ==
    /\ Len(s) >= Len(prefix)
    /\ SubSeq(s, 1, Len(prefix)) = prefix

\* strings.Fields: the maximal runs of non-space characters, in order.
\* cur is the field being read, acc the fields already closed.
RECURSIVE FieldsFrom(_, _, _)
FieldsFrom(s, cur, acc) ==
    IF s = <<>>
    THEN IF cur = <<>> THEN acc ELSE Append(acc, cur)
    ELSE IF IsSpace(Head(s))
         THEN FieldsFrom(Tail(s), <<>>, IF cur = <<>> THEN acc ELSE Append(acc, cur))
         ELSE FieldsFrom(Tail(s), Append(cur, Head(s)), acc)

Fields(s) == FieldsFrom(s, <<>>, <<>>)

\* bufio.ScanLines: drop one trailing carriage return of a line
DropCR(line) ==
    IF line # <<>> /\ line[Len(line)] = "\r"
    THEN SubSeq(line, 1, Len(line) - 1)
    ELSE line

\* bufio.Scanner with ScanLines: the text split at newlines, the newline
\* removed, a final line without newline returned when it is non-empty.
RECURSIVE ScanFrom(_, _, _)
ScanFrom(s, cur, acc) ==
    IF s = <<>>
    THEN IF cur = <<>> THEN acc ELSE Append(acc, DropCR(cur))
    ELSE IF Head(s) = "\n"
         THEN ScanFrom(Tail(s), <<>>, Append(acc, DropCR(cur)))
         ELSE ScanFrom(Tail(s), Append(cur, Head(s)), acc)

ScanLines(text) == ScanFrom(text, <<>>, <<>>)

\* strings.Join
RECURSIVE Join(_, _)
Join(elems, sep) ==
    IF elems = <<>> THEN <<>>
    ELSE IF Len(elems) = 1 THEN elems[1]
    ELSE elems[1] \o sep \o Join(Tail(elems), sep)

Range(f) == {f[i] : i \in DOMAIN f}

----------------------------------------------------------------------------
(* The key lines, response bodies and names the inputs are drawn from.     *)

ssh_rsa             == <<"s","s","h","-","r","s","a">>
ssh_ed25519         == <<"s","s","h","-","e","d","2","5","5","1","9">>
ecdsa_sha2_nistp256 == <<"e","c","d","s","a","-","s","h","a","2","-","n","i","s","t","p","2","5","6">>
ecdsa_sha2_nistp384 == <<"e","c","d","s","a","-","s","h","a","2","-","n","i","s","t","p","3","8","4">>
ecdsa_sha2_nistp521 == <<"e","c","d","s","a","-","s","h","a","2","-","n","i","s","t","p","5","2","1">>
ssh_dss             == <<"s","s","h","-","d","s","s">>

\* the validPrefixes list of both isValidKeyFormat functions
validPrefixes ==
    << ssh_rsa, ssh_ed25519, ecdsa_sha2_nistp256, ecdsa_sha2_nistp384,
       ecdsa_sha2_nistp521, ssh_dss >>

\* "ssh-rsa AAA remote@h"
KeyRsaRemote == ssh_rsa \o SP \o <<"A","A","A">> \o SP \o <<"r","@","h">>
\* "ssh-rsa AAA local@h": the same algorithm and blob, another comment
KeyRsaLocal  == ssh_rsa \o SP \o <<"A","A","A">> \o SP \o <<"l","@","h">>
\* "ssh-ed25519 BBB"
KeyEd        == ssh_ed25519 \o SP \o <<"B","B","B">>
\* "ssh-dss DDD"
KeyDss       == ssh_dss \o SP \o <<"D","D","D">>
\* "not-a-key garbage"
LineGarbage  == <<"n","o","t","-","a","-","k","e","y">> \o SP \o <<"g","a","r","b","a","g","e">>
\* "ssh-rsa-cert CCC": begins with the characters of ssh-rsa, its leading
\* token is another word
LineRsaCert  == ssh_rsa \o <<"-","c","e","r","t">> \o SP \o <<"C","C","C">>
\* "# note"
LineComment  == <<"#">> \o SP \o <<"n","o","t","e">>

\* a byte that is no valid UTF-8 (0xE9, Latin-1 for an accented e), and
\* utf8.RuneError, the replacement character U+FFFD
ByteE9    == "0xE9"
RuneError == "U+FFFD"

\* "ssh-ed25519 BBB caf<0xE9>": a key whose comment is Latin-1
KeyLatin1 == KeyEd \o SP \o <<"c", "a", "f", ByteE9>>

\* "# note\nssh-rsa AAA remote@h\n  ssh-dss DDD\r\n": a comment line, then two keys
BodyTwoKeys == LineComment \o NL \o KeyRsaRemote \o NL \o SP \o SP \o KeyDss \o <<"\r">> \o NL
\* "not-a-key garbage\n": lines, none of them a key
BodyGarbage == LineGarbage \o NL
\* "ssh-rsa-cert CCC\n"
BodyRsaCert == LineRsaCert \o NL
\* "": the listing of an identity that has no keys
BodyEmpty   == <<>>
\* "ssh-ed25519 BBB caf<0xE9>\n"
BodyLatin1  == KeyLatin1 \o NL

Bodies == {BodyTwoKeys, BodyGarbage, BodyRsaCert, BodyEmpty, BodyLatin1}

\* external identities (GitHub user names)
ghA == <<"g","h","A">>
ghB == <<"g","h","B">>

\* local accounts
alice == <<"a","l","i","c","e">>
bob   == <<"b","o","b">>
Wildcard == <<"*">>

\* Config.UserMap values: with and without a wildcard entry
MapPlain == (alice :> <<ghA, ghB>>)
MapWild  == (alice :> <<ghB>>) @@ (Wildcard :> <<ghA>>)
UserMaps == {MapPlain, MapWild}

\* the positional argument sshd passes; <<>> when it passes none
SSHUsernames == {alice, bob, <<>>}

----------------------------------------------------------------------------
(* Bounds of the model and constants of the program.                       *)

\* the clock runs from 0 to MaxTime (one unit is one minute)
MaxTime == 3
\* --cache-ttl is drawn from 1..MaxTTL
MaxTTL == 2

MaxRetries == 3

StatusOK == 200
StatusNotFound == 404
\* the least status FetchKeys treats as a server error
StatusServerError == 500
\* the statuses a response is drawn from
Statuses == {200, 403, 404, 500}

ExitSuccess == 0
ExitGeneralError == 1
ExitInvalidKeyFormat == 2
ExitConfigError == 3
ExitNetworkError == 4
ExitPermissionError == 5
\* syscall.SIGTERM
SIGTERM == 15
\* the wait status of a process ended by signal sig
KilledBy(sig) == 128 + sig

----------------------------------------------------------------------------
(* internal/github/fetcher.go                                              *)

NoErr == [kind |-> "nil"]

\* isValidKeyFormat of package github
isValidKeyFormat(key) ==
    LET k == TrimSpace(key) IN
    /\ k # <<>>
    /\ \E i \in DOMAIN validPrefixes : HasPrefix(k, validPrefixes[i])

\* parseKeys: the trimmed non-blank lines that pass isValidKeyFormat; an
\* error when there were lines and none passed
parseKeys(body) ==
    LET lines    == ScanLines(body)
        trimmed  == [i \in DOMAIN lines |-> TrimSpace(lines[i])]
        nonblank == SelectSeq(trimmed, LAMBDA l : l # <<>>)
        keys     == SelectSeq(nonblank, isValidKeyFormat)
        invalidCount == Len(nonblank) - Len(keys)
    IN  IF Len(keys) = 0 /\ invalidCount > 0
        THEN [keys |-> <<>>, err |-> [kind |-> "no_valid_keys", invalid |-> invalidCount]]
        ELSE [keys |-> keys, err |-> NoErr]

\* what one request meets: no response at all, or a status with a body
Responses ==
    {[kind |-> "transport", status |-> 0, body |-> <<>>]}
        \cup {[kind |-> "http", status |-> st, body |-> <<>>] : st \in Statuses \ {StatusOK}}
        \cup {[kind |-> "http", status |-> StatusOK, body |-> b] : b \in Bodies}

\* fetchKeysOnce: one request, its outcome as (keys, err)
fetchKeysOnce(resp) ==
    IF resp.kind = "transport"
    THEN [keys |-> <<>>, err |-> [kind |-> "request_failed"]]
    ELSE IF resp.status # StatusOK
    THEN [keys |-> <<>>, err |-> [kind |-> "HTTPError", StatusCode |-> resp.status]]
    ELSE LET p == parseKeys(resp.body) IN
         IF p.err # NoErr
         THEN [keys |-> <<>>, err |-> [kind |-> "parse_failed", cause |-> p.err]]
         ELSE [keys |-> p.keys, err |-> NoErr]

\* FetchKeysLoop with a server error returned at once instead of retried
FetchKeysLoopNoServerRetry(username, attempt, r) ==
    IF r.err = NoErr
    THEN [done |-> TRUE, keys |-> r.keys, err |-> NoErr]
    ELSE IF r.err.kind = "HTTPError"
    THEN IF r.err.StatusCode = StatusNotFound
         THEN [done |-> TRUE, keys |-> <<>>,
               err |-> [kind |-> "user_not_found", username |-> username]]
         ELSE [done |-> TRUE, keys |-> <<>>, err |-> r.err]
    ELSE IF attempt < MaxRetries
    THEN [done |-> FALSE, keys |-> <<>>, err |-> r.err]
    ELSE [done |-> TRUE, keys |-> <<>>,
          err |-> [kind |-> "failed_after_attempts", attempts |-> MaxRetries + 1,
                   cause |-> r.err]]

\* FetchKeysLoop with the loop allowed one iteration more
FetchKeysLoopOneMore(username, attempt, r) ==
    IF r.err = NoErr
    THEN [done |-> TRUE, keys |-> r.keys, err |-> NoErr]
    ELSE IF r.err.kind = "HTTPError"
    THEN IF r.err.StatusCode = StatusNotFound
         THEN [done |-> TRUE, keys |-> <<>>,
               err |-> [kind |-> "user_not_found", username |-> username]]
         ELSE IF r.err.StatusCode >= StatusServerError /\ attempt < MaxRetries + 1
         THEN [done |-> FALSE, keys |-> <<>>, err |-> r.err]
         ELSE [done |-> TRUE, keys |-> <<>>, err |-> r.err]
    ELSE IF attempt < MaxRetries + 1
    THEN [done |-> FALSE, keys |-> <<>>, err |-> r.err]
    ELSE [done |-> TRUE, keys |-> <<>>,
          err |-> [kind |-> "failed_after_attempts", attempts |-> MaxRetries + 1,
                   cause |-> r.err]]

\* One iteration of the retry loop of FetchKeys, after fetchKeysOnce has
\* returned r in iteration number attempt (0 is the first): the loop goes
\* on (done = FALSE) or FetchKeys returns (keys, err).
FetchKeysLoop(username, attempt, r) ==
    IF r.err = NoErr
    THEN [done |-> TRUE, keys |-> r.keys, err |-> NoErr]
    ELSE IF r.err.kind = "HTTPError"
    THEN IF r.err.StatusCode = StatusNotFound
         THEN [done |-> TRUE, keys |-> <<>>,
               err |-> [kind |-> "user_not_found", username |-> username]]
         ELSE IF r.err.StatusCode >= StatusServerError /\ attempt < MaxRetries
         THEN [done |-> FALSE, keys |-> <<>>, err |-> r.err]
         ELSE [done |-> TRUE, keys |-> <<>>, err |-> r.err]
    ELSE IF attempt < MaxRetries
    THEN [done |-> FALSE, keys |-> <<>>, err |-> r.err]
    ELSE [done |-> TRUE, keys |-> <<>>,
          err |-> [kind |-> "failed_after_attempts", attempts |-> MaxRetries + 1,
                   cause |-> r.err]]

\* FetchKeys before its loop
FetchKeysStart(username) ==
    IF username = <<>>
    THEN [done |-> TRUE, keys |-> <<>>, err |-> [kind |-> "empty_username"]]
    ELSE [done |-> FALSE, keys |-> <<>>, err |-> NoErr]

\* The returns (keys, err) FetchKeys can make once its loop is at iteration
\* attempt, over every response each request can meet: those of this
\* iteration and, if some response makes the loop go on, those of the next.
RECURSIVE FetchKeysFrom(_, _)
FetchKeysFrom(username, attempt) ==
    LET steps    == {FetchKeysLoop(username, attempt, fetchKeysOnce(resp)) :
                       resp \in Responses}
        returned == {[keys |-> step.keys, err |-> step.err] :
                       step \in {st \in steps : st.done}}
    IN  IF \E step \in steps : ~step.done
        THEN returned \cup FetchKeysFrom(username, attempt + 1)
        ELSE returned

\* the returns (keys, err) of a call of FetchKeys
FetchKeys(username) ==
    LET start == FetchKeysStart(username) IN
    IF start.done
    THEN {[keys |-> start.keys, err |-> start.err]}
    ELSE FetchKeysFrom(username, 0)

----------------------------------------------------------------------------
(* package cache                                                           *)

SafeChars ==
    {"a","b","c","d","e","f","g","h","i","j","k","l","m",
     "n","o","p","q","r","s","t","u","v","w","x","y","z",
     "A","B","C","D","E","F","G","H","I","J","K","L","M",
     "N","O","P","Q","R","S","T","U","V","W","X","Y","Z",
     "0","1","2","3","4","5","6","7","8","9","-","_"}

\* sanitizeFilename
sanitizeFilename(name) ==
    LET result == [i \in DOMAIN name |-> IF name[i] \in SafeChars THEN name[i] ELSE "_"]
    IN  IF result = <<>> THEN <<"d","e","f","a","u","l","t">> ELSE result

\* getCacheFilePath, relative to the cache directory
getCacheFilePath(githubUser) ==
    sanitizeFilename(githubUser) \o <<".","j","s","o","n">>

\* A file of the cache directory: absent, not decodable as JSON (empty or
\* cut short), or the JSON document of a Cache value.
NoFile      == [kind |-> "absent", entries |-> <<>>]
CorruptFile == [kind |-> "corrupt", entries |-> <<>>]
JSONFile(entries) == [kind |-> "json", entries |-> entries]

\* a Go string as json.Marshal stores it and json.Unmarshal gives it back:
\* invalid UTF-8 is replaced by U+FFFD
jsonString(str) ==
    [i \in DOMAIN str |-> IF str[i] = ByteE9 THEN RuneError ELSE str[i]]

\* the Cache value Write marshals: one CacheEntry
WriteData(githubUser, keys, t) ==
    JSONFile(<< [GitHubUser |-> jsonString(githubUser),
                 Keys |-> [i \in DOMAIN keys |-> jsonString(keys[i])],
                 Timestamp |-> t] >>)

\* Read, had it taken an entry as old as the TTL for expired
ReadExpiredAtTTL(dir, githubUser, t, cacheTTL, ioError) ==
    IF githubUser = <<>>
    THEN [keys |-> <<>>, isExpired |-> FALSE, err |-> [kind |-> "empty_username"]]
    ELSE LET file == dir[getCacheFilePath(githubUser)]
             hits == SelectSeq(file.entries, LAMBDA e : e.GitHubUser = githubUser)
         IN  IF file.kind = "absent"
             THEN [keys |-> <<>>, isExpired |-> FALSE, err |-> NoErr]
             ELSE IF ioError
             THEN [keys |-> <<>>, isExpired |-> FALSE, err |-> [kind |-> "read_failed"]]
             ELSE IF file.kind = "corrupt"
             THEN [keys |-> <<>>, isExpired |-> FALSE, err |-> [kind |-> "unmarshal_failed"]]
             ELSE IF hits # <<>>
             THEN [keys |-> hits[1].Keys,
                   isExpired |-> (t - hits[1].Timestamp) >= cacheTTL,
                   err |-> NoErr]
             ELSE [keys |-> <<>>, isExpired |-> FALSE, err |-> NoErr]

\* Read on the file found at the user's path, at time t: (keys, isExpired, err)
Read(dir, githubUser, t, cacheTTL, ioError) ==
    IF githubUser = <<>>
    THEN [keys |-> <<>>, isExpired |-> FALSE, err |-> [kind |-> "empty_username"]]
    ELSE LET file == dir[getCacheFilePath(githubUser)]
             hits == SelectSeq(file.entries, LAMBDA e : e.GitHubUser = githubUser)
         IN  IF file.kind = "absent"
             THEN [keys |-> <<>>, isExpired |-> FALSE, err |-> NoErr]
             ELSE IF ioError
             THEN [keys |-> <<>>, isExpired |-> FALSE, err |-> [kind |-> "read_failed"]]
             ELSE IF file.kind = "corrupt"
             THEN [keys |-> <<>>, isExpired |-> FALSE, err |-> [kind |-> "unmarshal_failed"]]
             ELSE IF hits # <<>>
             THEN [keys |-> hits[1].Keys,
                   isExpired |-> (t - hits[1].Timestamp) > cacheTTL,
                   err |-> NoErr]
             ELSE [keys |-> <<>>, isExpired |-> FALSE, err |-> NoErr]

\* what os.WriteFile can do: write the whole file, fail to open it (the
\* file is left as it was), or fail after truncating it
WriteOutcomes == {"ok", "open_failed", "write_failed"}

\* Write at time t: the directory afterwards and the error returned
Write(dir, githubUser, keys, t, outcome) ==
    IF githubUser = <<>>
    THEN [dir |-> dir, err |-> [kind |-> "empty_username"]]
    ELSE LET path == getCacheFilePath(githubUser) IN
         IF outcome = "ok"
         THEN [dir |-> [dir EXCEPT ![path] = WriteData(githubUser, keys, t)], err |-> NoErr]
         ELSE IF outcome = "open_failed"
         THEN [dir |-> dir, err |-> [kind |-> "write_failed"]]
         ELSE [dir |-> [dir EXCEPT ![path] = CorruptFile], err |-> [kind |-> "write_failed"]]

\* what os.Remove can do to a file that exists
RemoveOutcomes == {"ok", "remove_failed"}

\* Clear: the directory afterwards and the error returned
Clear(dir, githubUser, outcome) ==
    IF githubUser = <<>>
    THEN [dir |-> dir, err |-> [kind |-> "empty_username"]]
    ELSE LET path == getCacheFilePath(githubUser) IN
         IF dir[path].kind = "absent"
         THEN [dir |-> dir, err |-> NoErr]
         ELSE IF outcome = "ok"
         THEN [dir |-> [dir EXCEPT ![path] = NoFile], err |-> NoErr]
         ELSE [dir |-> dir, err |-> [kind |-> "remove_failed"]]

----------------------------------------------------------------------------
(* package config                                                          *)

\* strings.Split(s, sep) for a separator of one character
RECURSIVE SplitFrom(_, _, _, _)
SplitFrom(s, sep, cur, acc) ==
    IF s = <<>> THEN Append(acc, cur)
    ELSE IF Head(s) = sep THEN SplitFrom(Tail(s), sep, <<>>, Append(acc, cur))
    ELSE SplitFrom(Tail(s), sep, Append(cur, Head(s)), acc)

Split(s, sep) == SplitFrom(s, sep, <<>>, <<>>)

\* ParsePairs, had a repeated SSH user replaced its list instead of
\* extending it
RECURSIVE ParsePairsReplacing(_, _)
ParsePairsReplacing(pairs, result) ==
    IF pairs = <<>>
    THEN IF DOMAIN result = {}
         THEN [map |-> <<>>, err |-> [kind |-> "no_valid_mappings"]]
         ELSE [map |-> result, err |-> NoErr]
    ELSE LET pair       == TrimSpace(Head(pairs))
             parts      == Split(pair, ":")
             sshUser    == TrimSpace(parts[1])
             githubUser == TrimSpace(parts[2])
         IN  IF pair = <<>> THEN ParsePairsReplacing(Tail(pairs), result)
             ELSE IF Len(parts) # 2
             THEN [map |-> <<>>, err |-> [kind |-> "invalid_mapping_format"]]
             ELSE IF sshUser = <<>>
             THEN [map |-> <<>>, err |-> [kind |-> "empty_ssh_username"]]
             ELSE IF githubUser = <<>>
             THEN [map |-> <<>>, err |-> [kind |-> "empty_github_username"]]
             ELSE ParsePairsReplacing(Tail(pairs),
                             IF sshUser \in DOMAIN result
                             THEN [result EXCEPT ![sshUser] = <<githubUser>>]
                             ELSE result @@ (sshUser :> <<githubUser>>))

\* ParsePairs, had it skipped a pair that has not two parts
RECURSIVE ParsePairsSkippingInvalid(_, _)
ParsePairsSkippingInvalid(pairs, result) ==
    IF pairs = <<>>
    THEN IF DOMAIN result = {}
         THEN [map |-> <<>>, err |-> [kind |-> "no_valid_mappings"]]
         ELSE [map |-> result, err |-> NoErr]
    ELSE LET pair       == TrimSpace(Head(pairs))
             parts      == Split(pair, ":")
             sshUser    == TrimSpace(parts[1])
             githubUser == TrimSpace(parts[2])
         IN  IF pair = <<>> \/ Len(parts) # 2
             THEN ParsePairsSkippingInvalid(Tail(pairs), result)
             ELSE IF sshUser = <<>>
             THEN [map |-> <<>>, err |-> [kind |-> "empty_ssh_username"]]
             ELSE IF githubUser = <<>>
             THEN [map |-> <<>>, err |-> [kind |-> "empty_github_username"]]
             ELSE ParsePairsSkippingInvalid(Tail(pairs),
                             IF sshUser \in DOMAIN result
                             THEN [result EXCEPT ![sshUser] = Append(@, githubUser)]
                             ELSE result @@ (sshUser :> <<githubUser>>))

\* the loop of ParseUserMap over the pairs, from the map built so far
RECURSIVE ParsePairs(_, _)
ParsePairs(pairs, result) ==
    IF pairs = <<>>
    THEN IF DOMAIN result = {}
         THEN [map |-> <<>>, err |-> [kind |-> "no_valid_mappings"]]
         ELSE [map |-> result, err |-> NoErr]
    ELSE LET pair       == TrimSpace(Head(pairs))
             parts      == Split(pair, ":")
             sshUser    == TrimSpace(parts[1])
             githubUser == TrimSpace(parts[2])
         IN  IF pair = <<>> THEN ParsePairs(Tail(pairs), result)
             ELSE IF Len(parts) # 2
             THEN [map |-> <<>>, err |-> [kind |-> "invalid_mapping_format"]]
             ELSE IF sshUser = <<>>
             THEN [map |-> <<>>, err |-> [kind |-> "empty_ssh_username"]]
             ELSE IF githubUser = <<>>
             THEN [map |-> <<>>, err |-> [kind |-> "empty_github_username"]]
             ELSE ParsePairs(Tail(pairs),
                             IF sshUser \in DOMAIN result
                             THEN [result EXCEPT ![sshUser] = Append(@, githubUser)]
                             ELSE result @@ (sshUser :> <<githubUser>>))

\* ParseUserMap
ParseUserMap(userMapStr) ==
    IF userMapStr = <<>>
    THEN [map |-> <<>>, err |-> [kind |-> "empty_user_map"]]
    ELSE ParsePairs(Split(userMapStr, ","), <<>>)

\* GetGitHubUsers, had it added the wildcard entry to an exact match
GetGitHubUsersAddingWildcard(UserMap, name) ==
    IF name \in DOMAIN UserMap
    THEN IF Wildcard \in DOMAIN UserMap /\ name # Wildcard
         THEN UserMap[name] \o UserMap[Wildcard]
         ELSE UserMap[name]
    ELSE IF Wildcard \in DOMAIN UserMap THEN UserMap[Wildcard]
    ELSE <<>>

\* Config.GetGitHubUsers
GetGitHubUsers(UserMap, name) ==
    IF name \in DOMAIN UserMap THEN UserMap[name]
    ELSE IF Wildcard \in DOMAIN UserMap THEN UserMap[Wildcard]
    ELSE <<>>

----------------------------------------------------------------------------
(* internal/ssh/authorized_keys.go                                         *)

\* "no-pty ssh-dss DDD": an authorized_keys line with an options field
LineOptions == <<"n","o","-","p","t","y">> \o SP \o KeyDss
\* "no-pty ssh-dss EEE": the same options and algorithm, another key blob
LineOptionsOther == <<"n","o","-","p","t","y">> \o SP \o ssh_dss \o SP \o <<"E","E","E">>

\* the authorized_keys file of an account: missing, unreadable, or its text
LocalMissing    == [kind |-> "missing", text |-> <<>>]
LocalUnreadable == [kind |-> "unreadable", text |-> <<>>]
LocalText(text) == [kind |-> "text", text |-> text]

LocalFiles ==
    { LocalMissing, LocalUnreadable,
      \* "ssh-rsa AAA local@h\n"
      LocalText(KeyRsaLocal \o NL),
      \* "# note\n\nno-pty ssh-dss DDD\nssh-ed25519 BBB"
      LocalText(LineComment \o NL \o NL \o LineOptions \o NL \o KeyEd) }

\* ReadExistingKeys, had it kept the lines in the reverse order
ReadExistingKeysReversed(file) ==
    IF file.kind = "missing" THEN [keys |-> <<>>, err |-> NoErr]
    ELSE IF file.kind = "unreadable"
    THEN [keys |-> <<>>, err |-> [kind |-> "open_failed"]]
    ELSE LET lines   == ScanLines(file.text)
             trimmed == [i \in DOMAIN lines |-> TrimSpace(lines[Len(lines) + 1 - i])]
         IN  [keys |-> SelectSeq(trimmed, LAMBDA l : l # <<>> /\ ~HasPrefix(l, <<"#">>)),
              err |-> NoErr]

\* Manager.ReadExistingKeys
ReadExistingKeys(file) ==
    IF file.kind = "missing" THEN [keys |-> <<>>, err |-> NoErr]
    ELSE IF file.kind = "unreadable"
    THEN [keys |-> <<>>, err |-> [kind |-> "open_failed"]]
    ELSE LET lines   == ScanLines(file.text)
             trimmed == [i \in DOMAIN lines |-> TrimSpace(lines[i])]
         IN  [keys |-> SelectSeq(trimmed, LAMBDA l : l # <<>> /\ ~HasPrefix(l, <<"#">>)),
              err |-> NoErr]

\* normalizeKey
normalizeKey(key) ==
    LET k     == TrimSpace(key)
        parts == Fields(k)
    IN  IF k = <<>> THEN <<>>
        ELSE IF Len(parts) < 2 THEN k
        ELSE Join(SubSeq(parts, 1, 2), SP)

\* one of the two loops of MergeKeys over keys, from the map and the result
\* the loop starts with
RECURSIVE MergeLoop(_, _, _)
MergeLoop(keys, keyMap, result) ==
    IF keys = <<>> THEN [keyMap |-> keyMap, result |-> result]
    ELSE LET key        == TrimSpace(Head(keys))
             normalized == normalizeKey(key)
         IN  IF key = <<>> THEN MergeLoop(Tail(keys), keyMap, result)
             ELSE IF normalized # <<>> /\ normalized \notin keyMap
             THEN MergeLoop(Tail(keys), keyMap \cup {normalized}, Append(result, key))
             ELSE MergeLoop(Tail(keys), keyMap, result)

\* MergeKeys, had it folded the GitHub keys in before the existing ones
MergeKeysGithubFirst(githubKeys, existingKeys) ==
    LET first == MergeLoop(githubKeys, {}, <<>>)
    IN  MergeLoop(existingKeys, first.keyMap, first.result).result

\* Manager.MergeKeys
MergeKeys(githubKeys, existingKeys) ==
    LET first == MergeLoop(existingKeys, {}, <<>>)
    IN  MergeLoop(githubKeys, first.keyMap, first.result).result

\* FormatKeys, had it ended the output without a newline
FormatKeysNoTrailingNewline(keys) ==
    IF Len(keys) = 0 THEN <<>> ELSE Join(keys, NL)

\* FormatKeys
FormatKeys(keys) ==
    IF Len(keys) = 0 THEN <<>> ELSE Join(keys, NL) \o NL

\* GetAllKeys, had it returned the error of ReadExistingKeys
GetAllKeysFailingOnReadError(file, githubKeys) ==
    LET read == ReadExistingKeys(file)
    IN  IF read.err # NoErr THEN [output |-> <<>>, err |-> read.err]
        ELSE [output |-> FormatKeys(MergeKeys(githubKeys, read.keys)), err |-> NoErr]

\* Manager.GetAllKeys on the file the manager points at
GetAllKeys(file, githubKeys) ==
    LET read         == ReadExistingKeys(file)
        existingKeys == IF read.err # NoErr THEN <<>> ELSE read.keys
    IN  [output |-> FormatKeys(MergeKeys(githubKeys, existingKeys)), err |-> NoErr]

----------------------------------------------------------------------------
(* internal/resolver/resolver.go                                           *)

\* CacheHit with the test of isExpired inverted
CacheHitWhenExpired(cachedKeys, isExpired) ==
    Len(cachedKeys) > 0 /\ isExpired

\* resolveKeysForGitHubUser, step 2: the cached keys are returned
CacheHit(cachedKeys, isExpired) ==
    Len(cachedKeys) > 0 /\ ~isExpired

\* UseCacheFallback with the test of the length inverted
UseCacheFallbackWhenEmpty(cachedKeys) ==
    Len(cachedKeys) = 0

\* resolveKeysForGitHubUser after a failed fetch: the cached keys are
\* returned as the fallback
UseCacheFallback(cachedKeys) ==
    Len(cachedKeys) > 0

\* resolveKeysForGitHubUser after FetchKeys has returned (keys, err), with
\* cachedKeys read before: what it returns and whether it writes the cache
AfterFetch(cachedKeys, keys, err) ==
    IF err # NoErr
    THEN IF UseCacheFallback(cachedKeys)
         THEN [keys |-> cachedKeys, err |-> NoErr, write |-> FALSE]
         ELSE [keys |-> <<>>, err |-> [kind |-> "no_cache_available", cause |-> err],
               write |-> FALSE]
    ELSE [keys |-> keys, err |-> NoErr, write |-> TRUE]

\* AllFailed with the error count compared by > instead of =
AllFailedMoreErrors(result, errs, users) ==
    Cardinality(result) = 0 /\ Len(errs) > Len(users)

\* AllFailed without the comparison of the error count
AllFailedNoKeys(result, errs, users) ==
    Cardinality(result) = 0

\* ResolveKeys: the "all requests failed" test on the collected keys
AllFailed(result, errs, users) ==
    Cardinality(result) = 0 /\ Len(errs) = Len(users)

\* the orders in which ranging over the map allKeys can yield its keys
RECURSIVE Orderings(_)
Orderings(S) ==
    IF S = {} THEN {<<>>}
    ELSE UNION {{<<x>> \o rest : rest \in Orderings(S \ {x})} : x \in S}

----------------------------------------------------------------------------
(* cmd/charon-key/main.go                                                  *)

\* isValidKeyFormat of package main
mainIsValidKeyFormat(key) ==
    LET k == TrimSpace(key) IN
    /\ k # <<>>
    /\ \E i \in DOMAIN validPrefixes : HasPrefix(k, validPrefixes[i])

\* the validation loop of main: some key is handed to HandleInvalidKey
HasInvalidKey(keys) ==
    \E i \in DOMAIN keys : ~mainIsValidKeyFormat(keys[i])

\* HandleInvalidKey signals the process with SIGTERM and then calls
\* os.Exit(ExitInvalidKeyFormat): the process ends by whichever happens
\* first, the runtime's death by the signal or the exit.
InvalidKeyStatuses == {KilledBy(SIGTERM), ExitInvalidKeyFormat}

\* the account the command runs as (AuthorizedKeysCommandUser)
CurrentUser == <<"r","o","o","t">>

\* ssh.NewManager: the account whose authorized_keys file the manager
\* points at, from the outcomes of user.Lookup and user.Current
NewManager(username, lookupOK, currentOK) ==
    IF username = <<>>
    THEN IF currentOK
         THEN [owner |-> CurrentUser, err |-> NoErr]
         ELSE [owner |-> <<>>, err |-> [kind |-> "current_user_failed"]]
    ELSE IF lookupOK
         THEN [owner |-> username, err |-> NoErr]
         ELSE [owner |-> <<>>, err |-> [kind |-> "lookup_failed"]]

\* main, "Initialize SSH manager": the manager for the SSH username, else
\* the manager of the current user
MainManager(username, lookupOK, currentOK) ==
    LET first == NewManager(username, lookupOK, currentOK) IN
    IF first.err # NoErr THEN NewManager(<<>>, lookupOK, currentOK) ELSE first

\* main, "Get all keys": the text printed
MainOutput(file, keys) ==
    LET all == GetAllKeys(file, keys) IN
    IF all.err # NoErr THEN FormatKeys(keys) ELSE all.output

----------------------------------------------------------------------------
(* The state of one invocation and of the cache directory.                 *)

VARIABLES
    pc,           \* where main stands
    now,          \* the wall clock
    ttl,          \* Config.CacheTTL
    userMap,      \* Config.UserMap
    sshUsername,  \* Config.SSHUsername
    files,        \* the cache directory: path -> file
    githubUsers,  \* ResolveKeys: the identities being resolved
    idx,          \* ResolveKeys: position of the loop in githubUsers
    allKeys,      \* ResolveKeys: the map of keys
    errors,       \* ResolveKeys: the error list
    log,          \* ResolveKeys: per identity resolved so far, what happened
    githubKeys,   \* main: the keys ResolveKeys returned
    resolveErr,   \* main: the error ResolveKeys returned
    keysFrom,     \* main: the account whose authorized_keys is merged
    stdout,       \* the text written to standard output
    exitCode,     \* the exit status, once pc = "exited"
    fpc,          \* a call of FetchKeys followed request by request
    username,     \* FetchKeys: its argument
    attempt,      \* FetchKeys: the loop variable
    responses,    \* FetchKeys: the responses its requests have met
    fetched,      \* FetchKeys: what it returned
    merge,        \* a call of GetAllKeys: its inputs and what it computed
    writing,      \* the cache: the Write that has opened its file, if any
    lastOp,       \* the cache: the operation that returned last, its result
    written,      \* the cache: per identity, what its last Write stored
    cleared,      \* the cache: the identities cleared and not written since
    cmdline,      \* main: the command line
    configErr,    \* main: the error parseConfig returned
    mkdir         \* cache.NewManager: whether MkdirAll has been called

mainVars  == <<pc, now, ttl, userMap, sshUsername, files, githubUsers, idx,
               allKeys, errors, log, githubKeys, resolveErr, keysFrom, stdout,
               exitCode>>
fetchVars == <<fpc, username, attempt, responses, fetched>>
sshVars   == <<merge>>
cacheVars == <<writing, lastOp, written, cleared>>
startVars == <<cmdline, configErr, mkdir>>
vars == <<pc, now, ttl, userMap, sshUsername, files, githubUsers, idx,
          allKeys, errors, log, githubKeys, resolveErr, keysFrom, stdout,
          exitCode, fpc, username, attempt, responses, fetched, merge,
          writing, lastOp, written, cleared, cmdline, configErr, mkdir>>

Identities == {ghA, ghB}
CachePaths == {getCacheFilePath(u) : u \in Identities}

\* What earlier invocations, at time 0, have left in the file of an
\* identity: nothing, the keys parsed from a response, or a file cut short;
\* and, the directory being shared, an entry holding a line that is no key.
LeftFiles(u) ==
    { NoFile, CorruptFile,
      WriteData(u, parseKeys(BodyTwoKeys).keys, 0),
      WriteData(u, parseKeys(BodyEmpty).keys, 0),
      WriteData(u, <<KeyRsaRemote, LineGarbage>>, 0) }

\* and in the file of the second identity: nothing, or keys of which one
\* has the blob of a key of the response bodies under another comment
LeftFilesSecond ==
    {NoFile, WriteData(ghB, <<KeyRsaLocal, KeyDss>>, 0)}

InitialCaches ==
    { dir \in [CachePaths -> LeftFiles(ghA) \cup LeftFilesSecond] :
        /\ dir[getCacheFilePath(ghA)] \in LeftFiles(ghA)
        /\ dir[getCacheFilePath(ghB)] \in LeftFilesSecond }

NoFetch == [keys |-> <<>>, err |-> NoErr]

InitMain ==
    /\ pc = "main"
    /\ now = 0
    /\ ttl \in 1..MaxTTL
    /\ userMap \in UserMaps
    /\ sshUsername \in SSHUsernames
    /\ files \in InitialCaches
    /\ githubUsers = <<>>
    /\ idx = 0
    /\ allKeys = {}
    /\ errors = <<>>
    /\ log = <<>>
    /\ githubKeys = <<>>
    /\ resolveErr = NoErr
    /\ keysFrom = <<>>
    /\ stdout = <<>>
    /\ exitCode = 0

InitFetch ==
    /\ fpc = "idle"
    /\ username = <<>>
    /\ attempt = 0
    /\ responses = <<>>
    /\ fetched = NoFetch

\* GetAllKeys has not been called
NoMerge == [called |-> FALSE]

InitSsh == merge = NoMerge

\* no Write has its file open, no cache operation has returned
NoWriting == [user |-> <<>>]
NoOp      == [op |-> "none"]

InitCacheOps ==
    /\ writing = NoWriting
    /\ lastOp = NoOp
    /\ written = <<>>
    /\ cleared = {}

\* main has parsed its command line, which is not followed further, and
\* the cache directory exists
NoCmdline == [flags |-> "ok"]

InitStarted ==
    /\ cmdline = NoCmdline
    /\ configErr = NoErr
    /\ mkdir = TRUE

Init == InitMain /\ InitFetch /\ InitSsh /\ InitCacheOps /\ InitStarted

\* errors.ExitWithCode
ExitWithCode(code) ==
    /\ pc' = "exited"
    /\ exitCode' = code

\* main: ResolveKeysForSSHUser has returned err
ResolveFailed(err) ==
    /\ resolveErr' = err
    /\ ExitWithCode(ExitNetworkError)

\* ResolveStart, had neither function tested the SSH username
ResolveStartNameUntested ==
    /\ pc = "main"
    /\ LET users == GetGitHubUsers(userMap, sshUsername) IN
       IF Len(users) = 0
       THEN /\ ResolveFailed([kind |-> "no_users_mapped"])
            /\ UNCHANGED <<githubUsers, idx>>
       ELSE /\ githubUsers' = users
            /\ idx' = 1
            /\ pc' = "loop"
            /\ UNCHANGED <<resolveErr, exitCode>>
    /\ UNCHANGED <<now, ttl, userMap, sshUsername, files, allKeys, errors, log,
                   githubKeys, keysFrom, stdout>>
    /\ UNCHANGED <<fetchVars, sshVars, cacheVars, startVars>>

\* ResolveKeysForSSHUser and ResolveKeys up to its loop
ResolveStart ==
    /\ pc = "main"
    /\ LET users == GetGitHubUsers(userMap, sshUsername) IN
       IF sshUsername = <<>>
       THEN /\ ResolveFailed([kind |-> "username_not_set"])
            /\ UNCHANGED <<githubUsers, idx>>
       ELSE IF Len(users) = 0
       THEN /\ ResolveFailed([kind |-> "no_users_mapped"])
            /\ UNCHANGED <<githubUsers, idx>>
       ELSE /\ githubUsers' = users
            /\ idx' = 1
            /\ pc' = "loop"
            /\ UNCHANGED <<resolveErr, exitCode>>
    /\ UNCHANGED <<now, ttl, userMap, sshUsername, files, allKeys, errors, log,
                   githubKeys, keysFrom, stdout>>
    /\ UNCHANGED <<fetchVars, sshVars, cacheVars, startVars>>

\* resolveKeysForGitHubUser, had it returned the error of Write
resolveKeysFailingOnWriteError(dir, githubUser, t, cacheTTL, ioError, fetch, outcome) ==
    LET r == Read(dir, githubUser, t, cacheTTL, ioError)
        a == AfterFetch(r.keys, fetch.keys, fetch.err)
        w == Write(dir, githubUser, a.keys, t, outcome)
        seen == [user |-> githubUser, at |-> t,
                 file |-> dir[getCacheFilePath(githubUser)],
                 cachedKeys |-> r.keys, isExpired |-> r.isExpired,
                 readErr |-> r.err]
    IN  IF CacheHit(r.keys, r.isExpired)
        THEN seen @@ [fetchCalls |-> 0, fetchErr |-> NoErr, fetchedKeys |-> <<>>,
                      keys |-> r.keys, err |-> NoErr, writeErr |-> NoErr,
                      dir |-> dir]
        ELSE IF a.write /\ w.err # NoErr
        THEN seen @@ [fetchCalls |-> 1, fetchErr |-> fetch.err,
                      fetchedKeys |-> fetch.keys,
                      keys |-> <<>>, err |-> w.err, writeErr |-> w.err,
                      dir |-> w.dir]
        ELSE seen @@ [fetchCalls |-> 1, fetchErr |-> fetch.err,
                      fetchedKeys |-> fetch.keys,
                      keys |-> a.keys, err |-> a.err,
                      writeErr |-> IF a.write THEN w.err ELSE NoErr,
                      dir |-> IF a.write THEN w.dir ELSE dir]

\* resolveKeysForGitHubUser, had it returned the error of Read
resolveKeysFailingOnReadError(dir, githubUser, t, cacheTTL, ioError, fetch, outcome) ==
    LET r == Read(dir, githubUser, t, cacheTTL, ioError)
        a == AfterFetch(r.keys, fetch.keys, fetch.err)
        w == Write(dir, githubUser, a.keys, t, outcome)
        seen == [user |-> githubUser, at |-> t,
                 file |-> dir[getCacheFilePath(githubUser)],
                 cachedKeys |-> r.keys, isExpired |-> r.isExpired,
                 readErr |-> r.err]
    IN  IF r.err # NoErr
        THEN seen @@ [fetchCalls |-> 0, fetchErr |-> NoErr, fetchedKeys |-> <<>>,
                      keys |-> <<>>, err |-> r.err, writeErr |-> NoErr,
                      dir |-> dir]
        ELSE IF CacheHit(r.keys, r.isExpired)
        THEN seen @@ [fetchCalls |-> 0, fetchErr |-> NoErr, fetchedKeys |-> <<>>,
                      keys |-> r.keys, err |-> NoErr, writeErr |-> NoErr,
                      dir |-> dir]
        ELSE seen @@ [fetchCalls |-> 1, fetchErr |-> fetch.err,
                      fetchedKeys |-> fetch.keys,
                      keys |-> a.keys, err |-> a.err,
                      writeErr |-> IF a.write THEN w.err ELSE NoErr,
                      dir |-> IF a.write THEN w.dir ELSE dir]

\* resolveKeysForGitHubUser, had it not written the fetched keys back after
\* a failed Read
resolveKeysNoWriteAfterReadError(dir, githubUser, t, cacheTTL, ioError, fetch, outcome) ==
    LET r == Read(dir, githubUser, t, cacheTTL, ioError)
        a == AfterFetch(r.keys, fetch.keys, fetch.err)
        w == Write(dir, githubUser, a.keys, t, outcome)
        seen == [user |-> githubUser, at |-> t,
                 file |-> dir[getCacheFilePath(githubUser)],
                 cachedKeys |-> r.keys, isExpired |-> r.isExpired,
                 readErr |-> r.err]
    IN  IF CacheHit(r.keys, r.isExpired)
        THEN seen @@ [fetchCalls |-> 0, fetchErr |-> NoErr, fetchedKeys |-> <<>>,
                      keys |-> r.keys, err |-> NoErr, writeErr |-> NoErr,
                      dir |-> dir]
        ELSE seen @@ [fetchCalls |-> 1, fetchErr |-> fetch.err,
                      fetchedKeys |-> fetch.keys,
                      keys |-> a.keys, err |-> a.err,
                      writeErr |-> IF a.write /\ r.err = NoErr THEN w.err ELSE NoErr,
                      dir |-> IF a.write /\ r.err = NoErr THEN w.dir ELSE dir]

\* resolveKeysForGitHubUser on the directory dir at time t, when Read meets
\* ioError, FetchKeys (if called) returns fetch and Write (if called) ends
\* with outcome: the record of the call, with the time and the file it
\* read, its results keys and err, the number of its calls of FetchKeys and
\* the directory it leaves.
resolveKeysForGitHubUser(dir, githubUser, t, cacheTTL, ioError, fetch, outcome) ==
    LET r == Read(dir, githubUser, t, cacheTTL, ioError)
        a == AfterFetch(r.keys, fetch.keys, fetch.err)
        w == Write(dir, githubUser, a.keys, t, outcome)
        seen == [user |-> githubUser, at |-> t,
                 file |-> dir[getCacheFilePath(githubUser)],
                 cachedKeys |-> r.keys, isExpired |-> r.isExpired,
                 readErr |-> r.err]
    IN  IF CacheHit(r.keys, r.isExpired)
        THEN seen @@ [fetchCalls |-> 0, fetchErr |-> NoErr, fetchedKeys |-> <<>>,
                      keys |-> r.keys, err |-> NoErr, writeErr |-> NoErr,
                      dir |-> dir]
        ELSE seen @@ [fetchCalls |-> 1, fetchErr |-> fetch.err,
                      fetchedKeys |-> fetch.keys,
                      keys |-> a.keys, err |-> a.err,
                      writeErr |-> IF a.write THEN w.err ELSE NoErr,
                      dir |-> IF a.write THEN w.dir ELSE dir]

\* the fields of such a record that the model keeps in log
LogFields == {"user", "at", "file", "cachedKeys", "isExpired", "readErr", "fetchCalls",
              "fetchErr", "fetchedKeys", "keys", "err", "writeErr"}

\* ResolveUser, had the loop ended at the first identity that failed
ResolveUserStoppingAtFailure ==
    /\ pc = "loop"
    /\ \E fetch \in FetchKeys(githubUsers[idx]) :
       \E ioError \in BOOLEAN, outcome \in WriteOutcomes :
       \E call \in {resolveKeysForGitHubUser(files, githubUsers[idx], now, ttl,
                                             ioError, fetch, outcome)} :
             /\ files' = call.dir
             /\ log' = Append(log, [f \in LogFields |-> call[f]])
             /\ IF call.err # NoErr
                THEN /\ errors' = Append(errors, [user |-> call.user, err |-> call.err])
                     /\ UNCHANGED allKeys
                ELSE /\ allKeys' = allKeys \cup Range(call.keys)
                     /\ UNCHANGED errors
             /\ idx' = idx + 1
             /\ pc' = IF idx < Len(githubUsers) /\ call.err = NoErr
                      THEN "loop" ELSE "resolved"
    /\ UNCHANGED <<now, ttl, userMap, sshUsername, githubUsers, githubKeys,
                   resolveErr, keysFrom, stdout, exitCode>>
    /\ UNCHANGED <<fetchVars, sshVars, cacheVars, startVars>>

\* one iteration of the loop of ResolveKeys
ResolveUser ==
    /\ pc = "loop"
    /\ \E fetch \in FetchKeys(githubUsers[idx]) :
       \E ioError \in BOOLEAN, outcome \in WriteOutcomes :
       \E call \in {resolveKeysForGitHubUser(files, githubUsers[idx], now, ttl,
                                             ioError, fetch, outcome)} :
             /\ files' = call.dir
             /\ log' = Append(log, [f \in LogFields |-> call[f]])
             /\ IF call.err # NoErr
                THEN /\ errors' = Append(errors, [user |-> call.user, err |-> call.err])
                     /\ UNCHANGED allKeys
                ELSE /\ allKeys' = allKeys \cup Range(call.keys)
                     /\ UNCHANGED errors
             /\ idx' = idx + 1
             /\ pc' = IF idx < Len(githubUsers) THEN "loop" ELSE "resolved"
    /\ UNCHANGED <<now, ttl, userMap, sshUsername, githubUsers, githubKeys,
                   resolveErr, keysFrom, stdout, exitCode>>
    /\ UNCHANGED <<fetchVars, sshVars, cacheVars, startVars>>

\* ResolveKeys after its loop, and main's test of the error it returns; the
\* locals of ResolveKeys are gone once it has returned
ResolveReturn ==
    /\ pc = "resolved"
    /\ IF AllFailed(allKeys, errors, githubUsers)
       THEN /\ ResolveFailed([kind |-> "all_failed", errors |-> errors])
            /\ UNCHANGED githubKeys
       ELSE /\ \E result \in Orderings(allKeys) : githubKeys' = result
            /\ pc' = "validate"
            /\ UNCHANGED <<resolveErr, exitCode>>
    /\ allKeys' = {}
    /\ errors' = <<>>
    /\ log' = <<>>
    /\ UNCHANGED <<now, ttl, userMap, sshUsername, files, githubUsers, idx,
                   keysFrom, stdout>>
    /\ UNCHANGED <<fetchVars, sshVars, cacheVars, startVars>>

\* main, "Validate keys"
Validate ==
    /\ pc = "validate"
    /\ IF HasInvalidKey(githubKeys)
       THEN \E status \in InvalidKeyStatuses : ExitWithCode(status)
       ELSE pc' = "merge" /\ UNCHANGED exitCode
    /\ UNCHANGED <<now, ttl, userMap, sshUsername, files, githubUsers, idx,
                   allKeys, errors, log, githubKeys, resolveErr, keysFrom,
                   stdout>>
    /\ UNCHANGED <<fetchVars, sshVars, cacheVars, startVars>>

\* main, from "Initialize SSH manager" to its end
Output ==
    /\ pc = "merge"
    /\ \E lookupOK \in BOOLEAN, currentOK \in BOOLEAN, file \in LocalFiles :
         LET m == MainManager(sshUsername, lookupOK, currentOK) IN
         IF m.err # NoErr
         THEN /\ ExitWithCode(ExitPermissionError)
              /\ UNCHANGED <<keysFrom, stdout>>
         ELSE /\ keysFrom' = m.owner
              /\ stdout' = stdout \o MainOutput(file, githubKeys)
              /\ ExitWithCode(ExitSuccess)
    /\ UNCHANGED <<now, ttl, userMap, sshUsername, files, githubUsers, idx,
                   allKeys, errors, log, githubKeys, resolveErr>>
    /\ UNCHANGED <<fetchVars, sshVars, cacheVars, startVars>>

\* time passes before the command starts and between two identities
Tick ==
    /\ pc \in {"main", "loop"}
    /\ now < MaxTime
    /\ now' = now + 1
    /\ UNCHANGED <<pc, ttl, userMap, sshUsername, files, githubUsers, idx,
                   allKeys, errors, log, githubKeys, resolveErr, keysFrom,
                   stdout, exitCode>>
    /\ UNCHANGED <<fetchVars, sshVars, cacheVars, startVars>>

Next ==
    \/ ResolveStart
    \/ ResolveUser
    \/ ResolveReturn
    \/ Validate
    \/ Output
    \/ Tick

Spec == Init /\ [][Next]_vars

----------------------------------------------------------------------------
(* A call of FetchKeys followed request by request.                        *)

\* FetchKeys is called and reaches its loop, or returns at once
FetchCall ==
    /\ fpc \in {"idle", "returned"}
    /\ \E u \in Identities \cup {<<>>} :
         LET start == FetchKeysStart(u) IN
         /\ username' = u
         /\ attempt' = 0
         /\ responses' = <<>>
         /\ fetched' = [keys |-> start.keys, err |-> start.err]
         /\ fpc' = IF start.done THEN "returned" ELSE "loop"
    /\ UNCHANGED <<mainVars, sshVars, cacheVars, startVars>>

\* one iteration of the loop of FetchKeys
FetchAttempt ==
    /\ fpc = "loop"
    /\ \E resp \in Responses :
         LET step == FetchKeysLoop(username, attempt, fetchKeysOnce(resp))
         IN  /\ responses' = Append(responses, resp)
             /\ IF step.done
                THEN /\ fetched' = [keys |-> step.keys, err |-> step.err]
                     /\ fpc' = "returned"
                     /\ UNCHANGED attempt
                ELSE /\ attempt' = attempt + 1
                     /\ UNCHANGED <<fetched, fpc>>
    /\ UNCHANGED <<username>>
    /\ UNCHANGED <<mainVars, sshVars, cacheVars, startVars>>

NextFetch ==
    \/ FetchCall
    \/ FetchAttempt

\* one configuration, the command not started
InitIdle ==
    /\ InitMain
    /\ ttl = 1
    /\ userMap = MapPlain
    /\ sshUsername = alice
    /\ \A path \in CachePaths : files[path] = NoFile

InitAtFetch == InitIdle /\ InitFetch /\ InitSsh /\ InitCacheOps /\ InitStarted

SpecFetch == InitAtFetch /\ [][NextFetch]_vars

\* An iteration of the loop of FetchKeys ends: the client gives up a request
\* after DefaultTimeout and the sleep before a retry is finite.
SpecFetchFair == SpecFetch /\ WF_vars(FetchAttempt)

----------------------------------------------------------------------------
(* Properties of the command: validation and output.                       *)

\* the leading whitespace-separated token of line is one of the six
\* algorithm identifiers
LeadingTokenCanonical(line) ==
    LET fields == Fields(line) IN
    fields # <<>> /\ fields[1] \in Range(validPrefixes)

\* resolution has returned a key line whose leading token is no identifier
ResolvedNonCanonical ==
    \E i \in DOMAIN githubKeys : ~LeadingTokenCanonical(githubKeys[i])

\* C1: if a key line returned by resolution has a leading token that is
\* none of the six algorithm identifiers, the process does not go on to
\* the merge: it aborts with the status of an invalid key format (the exit
\* status or the death by the signal HandleInvalidKey sends) and has
\* written nothing to standard output.
C1_NonCanonicalKeyAborts ==
    ResolvedNonCanonical =>
        /\ pc \in {"validate", "exited"}
        /\ pc = "exited" => (exitCode \in InvalidKeyStatuses /\ stdout = <<>>)

\* C2: every line written to standard output, from resolution or from the
\* local authorized_keys file, has one of the six algorithm identifiers as
\* its leading token.
C2_OutputLinesCanonical ==
    \A line \in Range(ScanLines(stdout)) : LeadingTokenCanonical(line)

----------------------------------------------------------------------------
(* Properties of the resolution of one identity, read off log.             *)

\* Read found an entry of e.user in the file it read
Found(e) ==
    /\ e.readErr = NoErr
    /\ e.file.kind = "json"
    /\ \E i \in DOMAIN e.file.entries : e.file.entries[i].GitHubUser = e.user

\* that entry: the first one of the user
EntryRead(e) ==
    LET hits == SelectSeq(e.file.entries, LAMBDA c : c.GitHubUser = e.user)
    IN  hits[1]

\* the entry was fresh when it was read: now - fetchedAt <= ttl
Fresh(e) == e.at - EntryRead(e).Timestamp <= ttl

\* no fetch was made and the keys of the entry are the keys of the identity
ServedFromCacheUnfetched(e) ==
    /\ e.fetchCalls = 0
    /\ e.err = NoErr
    /\ e.keys = EntryRead(e).Keys
    /\ Range(EntryRead(e).Keys) \subseteq allKeys

FetchFailedWithEntry(e) ==
    e.fetchCalls = 1 /\ e.fetchErr # NoErr /\ Found(e)

\* the identity is resolved, with no error, to the keys of the entry
ServedFromCache(e) ==
    e.err = NoErr /\ e.keys = EntryRead(e).Keys

\* the step by which ResolveKeys returns keys, each once, and no error
ReturnsKeys(keys) ==
    /\ pc' = "validate"
    /\ resolveErr' = NoErr
    /\ Range(githubKeys') = keys
    /\ Len(githubKeys') = Cardinality(keys)

C10_NotFoundIdentityFails ==
    \A i \in DOMAIN log :
        (log[i].fetchCalls = 1 /\ log[i].fetchErr.kind = "user_not_found")
            => (log[i].err # NoErr /\ log[i].keys = <<>>)

----------------------------------------------------------------------------
(* Properties of the return of ResolveKeys.                                *)

\* the fetch of the identity failed and Read had found no entry of it
FetchFailedWithoutEntry(e) ==
    e.fetchCalls = 1 /\ e.fetchErr # NoErr /\ ~Found(e)

\* the loop of ResolveKeys has resolved every mapped identity, in order
AllResolved ==
    /\ pc = "resolved"
    /\ Len(log) = Len(githubUsers)
    /\ \A i \in DOMAIN log : log[i].user = githubUsers[i]

\* C5: if every mapped identity fails, its fetch having failed with no
\* cache entry to fall back on, ResolveKeys returns no keys and an error
\* that names each identity with the reason of its failure, and the
\* process exits with the status of a network error, nothing written to
\* standard output.
C5_AllFailedAggregatedError ==
    [][ pc = "resolved" =>
          /\ AllResolved
          /\ (\A i \in DOMAIN log : FetchFailedWithoutEntry(log[i])) =>
                /\ pc' = "exited"
                /\ exitCode' = ExitNetworkError
                /\ githubKeys' = <<>>
                /\ stdout' = <<>>
                /\ resolveErr'.kind = "all_failed"
                /\ resolveErr'.errors =
                     [i \in DOMAIN log |->
                        [user |-> log[i].user,
                         err |-> [kind |-> "no_cache_available",
                                  cause |-> log[i].fetchErr]]] ]_vars

\* the process has exited on the failure of both identities of the
\* account, one not found and one out of attempts
C5_Witness ==
    /\ pc = "exited"
    /\ exitCode = ExitNetworkError
    /\ stdout = <<>>
    /\ resolveErr.kind = "all_failed"
    /\ Len(resolveErr.errors) = 2
    /\ resolveErr.errors[1].err.cause.kind = "user_not_found"
    /\ resolveErr.errors[2].err.cause.kind = "failed_after_attempts"

\* C6, as stated: every successful return of ResolveKeys carries a
\* non-empty key list.
C6_SuccessHasKeys ==
    pc \in {"validate", "merge"} => githubKeys # <<>>

\* the keys of the identities resolved without error
KeysOfSucceeded ==
    UNION {Range(log[i].keys) : i \in {j \in DOMAIN log : log[j].err = NoErr}}

\* C6, amended: ResolveKeys returns an error exactly when every mapped
\* identity failed; otherwise it returns, with no error, the keys of the
\* identities that succeeded, each once, and that list is empty when those
\* identities yielded no key.
C6_ErrorIffAllFailed ==
    [][ pc = "resolved" =>
          IF \A i \in DOMAIN log : log[i].err # NoErr
          THEN /\ pc' = "exited"
               /\ resolveErr'.kind = "all_failed"
               /\ githubKeys' = <<>>
          ELSE ReturnsKeys(KeysOfSucceeded) ]_vars

\* ResolveKeys has returned no keys and no error for an account mapped to
\* two identities
C6_Witness ==
    /\ pc = "validate"
    /\ githubKeys = <<>>
    /\ resolveErr = NoErr
    /\ Len(githubUsers) = 2

----------------------------------------------------------------------------
(* Properties of FetchKeys, read off the responses its requests have met.  *)

\* a response with a status >= 500
IsServerError(resp) ==
    resp.kind = "http" /\ resp.status >= StatusServerError

\* a response with status 200 whose body parses
IsSuccess(resp) ==
    resp.kind = "http" /\ resp.status = StatusOK /\ parseKeys(resp.body).err = NoErr

\* a response with status 404
IsNotFound(resp) ==
    resp.kind = "http" /\ resp.status = StatusNotFound

\* a server error or a transport failure
IsRetryable(resp) ==
    resp.kind = "transport" \/ IsServerError(resp)

\* the response the last request has met
LastResponse == responses[Len(responses)]

\* every request before the last one has met a server error
ServerErrorsBeforeLast ==
    \A i \in 1..(Len(responses) - 1) : IsServerError(responses[i])

\* C7: k server errors, 0 <= k <= MaxRetries, do not end the call, and a
\* 200 response after them returns its keys, so after exactly k+1
\* requests; a 404 met by the first request returns a not-found error
\* after exactly one request.
C7_RetryCounting ==
    /\ (/\ fpc # "idle"
        /\ username # <<>>
        /\ Len(responses) <= MaxRetries
        /\ \A i \in DOMAIN responses : IsServerError(responses[i]))
          => fpc = "loop"
    /\ (responses # <<>> /\ ServerErrorsBeforeLast /\ IsSuccess(LastResponse))
          => /\ fpc = "returned"
             /\ Len(responses) <= MaxRetries + 1
             /\ fetched = [keys |-> parseKeys(LastResponse.body).keys, err |-> NoErr]
    /\ (responses # <<>> /\ IsNotFound(responses[1]))
          => /\ fpc = "returned"
             /\ Len(responses) = 1
             /\ fetched = [keys |-> <<>>,
                           err |-> [kind |-> "user_not_found", username |-> username]]

\* FetchKeys has returned two keys from its last allowed request, after
\* MaxRetries server errors
C7_Witness ==
    /\ fpc = "returned"
    /\ Len(responses) = MaxRetries + 1
    /\ ServerErrorsBeforeLast
    /\ IsSuccess(LastResponse)
    /\ Len(fetched.keys) = 2
    /\ fetched.err = NoErr

\* C8: only a server error or a transport failure is followed by another
\* request; after any other failure (a 404, another status below 500, a
\* 200 response whose body fails to parse) FetchKeys returns that failure
\* at once.
C8_OnlyRetryableRetried ==
    /\ \A i \in 1..(Len(responses) - 1) : IsRetryable(responses[i])
    /\ (/\ responses # <<>>
        /\ fetchKeysOnce(LastResponse).err # NoErr
        /\ ~IsRetryable(LastResponse))
          => (fpc = "returned" /\ fetched.err # NoErr)

\* what holds of a call of FetchKeys at every moment: at most MaxRetries+1
\* requests, the last of them ending the call; and the error returned
\* after requests that all met retryable failures is, or wraps, the error
\* of the last request
FetchKeysBounded ==
    /\ Len(responses) <= MaxRetries + 1
    /\ attempt <= MaxRetries
    /\ Len(responses) = MaxRetries + 1 => fpc = "returned"
    /\ (/\ fpc = "returned"
        /\ responses # <<>>
        /\ \A i \in DOMAIN responses : IsRetryable(responses[i]))
          => /\ Len(responses) = MaxRetries + 1
             /\ LET lastErr == fetchKeysOnce(LastResponse).err IN
                \/ fetched.err = lastErr
                \/ /\ fetched.err.kind = "failed_after_attempts"
                   /\ fetched.err.cause = lastErr

\* C9: FetchKeys returns, whatever its requests meet, after at most
\* MaxRetries+1 requests, and when every request met a retryable failure
\* the error it returns is, or wraps, the error of the last request.
C9_TerminatesLastError ==
    /\ []FetchKeysBounded
    /\ (fpc = "loop") ~> (fpc = "returned")

\* FetchKeys has returned, after MaxRetries+1 requests of which the last
\* met a transport failure, the error that wraps that failure
C9_Witness ==
    /\ fpc = "returned"
    /\ Len(responses) = MaxRetries + 1
    /\ \A i \in DOMAIN responses : IsRetryable(responses[i])
    /\ IsServerError(responses[1])
    /\ LastResponse.kind = "transport"
    /\ fetched.err.kind = "failed_after_attempts"
    /\ fetched.err.cause = [kind |-> "request_failed"]

----------------------------------------------------------------------------
(* A call of GetAllKeys: an authorized_keys file and the keys resolved.    *)

\* the largest number of lines of the file and of keys passed to the merge
MaxLines == 2

\* "  ssh-rsa   AAA\tother@h ": the blob of KeyRsaLocal, spaced otherwise
KeyRsaSpaced ==
    SP \o SP \o ssh_rsa \o SP \o SP \o SP \o <<"A","A","A">> \o <<"\t">>
       \o <<"o","@","h">> \o SP
\* "ssh-rsa": a line of one token
LineOneToken == ssh_rsa

\* the lines an authorized_keys file is made of
LocalLines == {KeyRsaLocal, KeyRsaSpaced, LineOneToken, LineComment, <<>>}

\* the keys ResolveKeys may hand to the merge
ResolvedLines == {KeyRsaRemote, KeyRsaSpaced, KeyEd, LineOneToken, SP}

\* the sequences over S of at most n elements
RECURSIVE SeqsUpTo(_, _)
SeqsUpTo(S, n) ==
    IF n = 0 THEN {<<>>}
    ELSE LET shorter == SeqsUpTo(S, n - 1)
         IN  shorter \cup {Append(q, x) : q \in {r \in shorter : Len(r) = n - 1}, x \in S}

\* "no-pty ssh-dss DDD\nno-pty ssh-dss EEE\n": two entries that start with
\* an options field
LocalTwoOptionLines == LocalText(LineOptions \o NL \o LineOptionsOther \o NL)

\* the files: missing, unreadable, the file of the two entries with options,
\* or lines each ended by a newline, the last one possibly not
MergeFiles ==
    {LocalMissing, LocalUnreadable, LocalTwoOptionLines}
      \cup {LocalText(Join(lines, NL)) : lines \in SeqsUpTo(LocalLines, MaxLines)}
      \cup {LocalText(Join(lines, NL) \o NL) : lines \in SeqsUpTo(LocalLines, MaxLines)}

MergeInput(file, keys) ==
    [called |-> FALSE, file |-> file, githubKeys |-> keys,
     readErr |-> NoErr, existingKeys |-> <<>>, mergedKeys |-> <<>>, output |-> <<>>]

\* the manager and the resolved keys, GetAllKeys not called yet
InitAtMerge ==
    /\ InitIdle
    /\ InitFetch
    /\ InitCacheOps
    /\ InitStarted
    /\ \E file \in MergeFiles, keys \in SeqsUpTo(ResolvedLines, MaxLines) :
          merge = MergeInput(file, keys)

\* Manager.GetAllKeys, with what its steps computed
GetAllKeysCall ==
    /\ ~merge.called
    /\ LET read         == ReadExistingKeys(merge.file)
           existingKeys == IF read.err # NoErr THEN <<>> ELSE read.keys
       IN  merge' = [merge EXCEPT
                       !.called = TRUE,
                       !.readErr = read.err,
                       !.existingKeys = existingKeys,
                       !.mergedKeys = MergeKeys(merge.githubKeys, existingKeys),
                       !.output = GetAllKeys(merge.file, merge.githubKeys).output]
    /\ UNCHANGED <<mainVars, fetchVars, cacheVars, startVars>>

NextKeys == GetAllKeysCall

SpecKeys == InitAtMerge /\ [][NextKeys]_vars

----------------------------------------------------------------------------
(* Properties of the merge and of the output format.                       *)

\* the dedup key of a line: its first two whitespace-separated tokens
DedupKey(line) ==
    LET tokens == Fields(line)
    IN  IF Len(tokens) < 2 THEN tokens ELSE <<tokens[1], tokens[2]>>

\* the entries of the local file: its lines without the surrounding
\* whitespace, blank lines and comments left out
LocalEntries ==
    IF merge.file.kind # "text" THEN <<>>
    ELSE LET lines == ScanLines(merge.file.text)
         IN  SelectSeq([i \in DOMAIN lines |-> TrimSpace(lines[i])],
                       LAMBDA l : l # <<>> /\ l[1] # "#")

\* the resolved keys without the surrounding whitespace, blank ones left out
ResolvedEntries ==
    SelectSeq([i \in DOMAIN merge.githubKeys |-> TrimSpace(merge.githubKeys[i])],
              LAMBDA l : l # <<>>)

\* C11: the output of MergeKeys has no two lines of the same dedup key, and
\* when a local entry and a resolved key have the same dedup key the one
\* line of that key in the output is the text of a local entry.
C11_DedupLocalWins ==
    merge.called =>
      LET out == merge.mergedKeys IN
      /\ \A i, j \in DOMAIN out : DedupKey(out[i]) = DedupKey(out[j]) => i = j
      /\ \A l \in DOMAIN LocalEntries, r \in DOMAIN ResolvedEntries :
            DedupKey(LocalEntries[l]) = DedupKey(ResolvedEntries[r])
              => \E i \in DOMAIN out :
                   /\ DedupKey(out[i]) = DedupKey(LocalEntries[l])
                   /\ \E k \in DOMAIN LocalEntries : out[i] = LocalEntries[k]

\* "ssh-rsa AAA local@h" in the file and "ssh-rsa AAA remote@h" resolved
\* are merged into the one line "ssh-rsa AAA local@h"
C11_Witness ==
    /\ merge.called
    /\ merge.file = LocalText(KeyRsaLocal \o NL)
    /\ merge.githubKeys = <<KeyRsaRemote>>
    /\ merge.mergedKeys = <<KeyRsaLocal>>

\* the entries of the local file and the resolved keys, one after the other,
\* of which a line survives when no line before it has its dedup key
MergeCandidates == LocalEntries \o ResolvedEntries

Survives(i) ==
    \A j \in 1..(i - 1) : DedupKey(MergeCandidates[j]) # DedupKey(MergeCandidates[i])

RECURSIVE SurvivorsFrom(_)
SurvivorsFrom(i) ==
    IF i > Len(MergeCandidates) THEN <<>>
    ELSE IF Survives(i) THEN <<MergeCandidates[i]>> \o SurvivorsFrom(i + 1)
    ELSE SurvivorsFrom(i + 1)

\* C12: the merged output is the surviving local entries in the order of
\* the local file (comments and blank lines removed), followed by the
\* surviving resolved keys in the order they were passed to the merge.
C12_StableOrder ==
    merge.called => merge.mergedKeys = SurvivorsFrom(1)

\* a file of two entries around a comment, and two resolved keys of which
\* the first repeats the second entry: three lines, local ones first
C12_Witness ==
    /\ merge.called
    /\ merge.file = LocalText(LineOneToken \o NL \o KeyRsaLocal \o NL)
    /\ merge.githubKeys = <<KeyRsaRemote, KeyEd>>
    /\ merge.mergedKeys = <<LineOneToken, KeyRsaLocal, KeyEd>>

\* the lines, each one ended by a newline
RECURSIVE EachLineEnded(_)
EachLineEnded(lines) ==
    IF lines = <<>> THEN <<>>
    ELSE Head(lines) \o NL \o EachLineEnded(Tail(lines))

\* C13: FormatKeys of a non-empty list is its lines joined by single
\* newlines and followed by exactly one newline; FormatKeys of the empty
\* list is the empty string.
C13_FormatKeys ==
    merge.called =>
      /\ merge.output = EachLineEnded(merge.mergedKeys)
      /\ merge.mergedKeys = <<>> => merge.output = <<>>
      /\ merge.mergedKeys # <<>> =>
            /\ merge.output[Len(merge.output)] = "\n"
            /\ Len(merge.output) > 1 => merge.output[Len(merge.output) - 1] # "\n"

\* two lines are printed as "ssh-rsa AAA l@h\nssh-ed25519 BBB\n"
C13_Witness ==
    /\ merge.called
    /\ merge.mergedKeys = <<KeyRsaLocal, KeyEd>>
    /\ merge.output = KeyRsaLocal \o NL \o KeyEd \o NL

----------------------------------------------------------------------------
(* The cache directory used by several invocations: Write, Read and Clear  *)
(* of the identities of a user map, os.WriteFile followed from the open    *)
(* that truncates the file to the write that fills it.                     *)

\* "alice:ghA, alice:gh.B ,bob:gh_B"
UserMapStr ==
    alice \o <<":">> \o ghA \o <<",", " ">>
      \o alice \o <<":", "g", "h", ".", "B", " ", ",">>
      \o bob \o <<":", "g", "h", "_", "B">>

\* the keys a fetch hands to Write
CacheKeyLists == {<<KeyRsaRemote, KeyLatin1>>}

\* the latest time of an operation on the directory
MaxCacheTime == 2

\* the identities of the user map
MappedIdentities == UNION {Range(userMap[u]) : u \in DOMAIN userMap}

\* nothing stored for an identity
NoEntry == [stored |-> FALSE, keys |-> <<>>, at |-> 0]

\* what Write or Clear returned
Returned(op, user, err) ==
    [op |-> op, user |-> user, err |-> err,
     at |-> 0, file |-> NoFile, keys |-> <<>>, isExpired |-> FALSE]

\* what Read returned, with the time of the call and the file it found at
\* the path of the identity
ReturnedRead(user, read) ==
    [op |-> "Read", user |-> user, err |-> read.err,
     at |-> now, file |-> files[getCacheFilePath(user)],
     keys |-> read.keys, isExpired |-> read.isExpired]

\* an empty cache directory and the parsed user map, no operation called
InitAtCache ==
    /\ InitFetch
    /\ InitSsh
    /\ InitStarted
    /\ pc = "main"
    /\ now = 0
    /\ ttl \in 1..MaxTTL
    /\ sshUsername = alice
    /\ userMap = ParseUserMap(UserMapStr).map
    /\ githubUsers = <<>>
    /\ idx = 0
    /\ allKeys = {}
    /\ errors = <<>>
    /\ log = <<>>
    /\ githubKeys = <<>>
    /\ resolveErr = NoErr
    /\ keysFrom = <<>>
    /\ stdout = <<>>
    /\ exitCode = 0
    /\ files = [path \in {getCacheFilePath(u) : u \in MappedIdentities} |-> NoFile]
    /\ writing = NoWriting
    /\ lastOp = NoOp
    /\ written = [u \in MappedIdentities |-> NoEntry]
    /\ cleared = {}

\* Write up to the open of os.WriteFile, which creates or truncates the file
CacheWriteOpen ==
    /\ writing = NoWriting
    /\ \E githubUser \in MappedIdentities, keys \in CacheKeyLists, opened \in BOOLEAN :
         /\ written' = IF opened THEN [written EXCEPT ![githubUser] = NoEntry] ELSE written
         /\ cleared' = IF opened THEN cleared \ {githubUser} ELSE cleared
         /\ IF opened
            THEN /\ files' = Write(files, githubUser, keys, now, "write_failed").dir
                 /\ writing' = [user |-> githubUser, keys |-> keys, at |-> now,
                                unlinked |-> FALSE]
                 /\ UNCHANGED lastOp
            ELSE LET failed == Write(files, githubUser, keys, now, "open_failed") IN
                 /\ files' = failed.dir
                 /\ lastOp' = Returned("Write", githubUser, failed.err)
                 /\ UNCHANGED writing
    /\ UNCHANGED <<pc, now, ttl, userMap, sshUsername, githubUsers, idx, allKeys,
                   errors, log, githubKeys, resolveErr, keysFrom, stdout, exitCode>>
    /\ UNCHANGED <<fetchVars, sshVars, startVars>>

\* Write from the write of os.WriteFile to its return; the bytes of a file
\* removed in between go to no path
CacheWriteClose ==
    /\ writing # NoWriting
    /\ \E outcome \in {"ok", "write_failed"} :
         LET done == Write(files, writing.user, writing.keys, writing.at, outcome) IN
         /\ files' = IF writing.unlinked THEN files ELSE done.dir
         /\ lastOp' = Returned("Write", writing.user, done.err)
         /\ written' = [written EXCEPT ![writing.user] =
                          IF done.err = NoErr
                          THEN [stored |-> TRUE, keys |-> writing.keys, at |-> writing.at]
                          ELSE NoEntry]
    /\ writing' = NoWriting
    /\ UNCHANGED cleared
    /\ UNCHANGED <<pc, now, ttl, userMap, sshUsername, githubUsers, idx, allKeys,
                   errors, log, githubKeys, resolveErr, keysFrom, stdout, exitCode>>
    /\ UNCHANGED <<fetchVars, sshVars, startVars>>

\* Read
CacheRead ==
    /\ \E githubUser \in MappedIdentities, ioError \in BOOLEAN :
         LET read == Read(files, githubUser, now, ttl, ioError) IN
         lastOp' = ReturnedRead(githubUser, read)
    /\ UNCHANGED <<writing, written, cleared>>
    /\ UNCHANGED <<mainVars, fetchVars, sshVars, startVars>>

\* Clear
CacheClear ==
    /\ \E githubUser \in MappedIdentities, outcome \in RemoveOutcomes :
         LET done == Clear(files, githubUser, outcome) IN
         /\ files' = done.dir
         /\ lastOp' = Returned("Clear", githubUser, done.err)
         /\ written' = IF done.err = NoErr THEN [written EXCEPT ![githubUser] = NoEntry] ELSE written
         /\ cleared' = IF done.err = NoErr THEN cleared \cup {githubUser} ELSE cleared
         /\ writing' = IF /\ writing # NoWriting
                          /\ getCacheFilePath(writing.user) = getCacheFilePath(githubUser)
                          /\ done.err = NoErr
                       THEN [writing EXCEPT !.unlinked = TRUE]
                       ELSE writing
    /\ UNCHANGED <<pc, now, ttl, userMap, sshUsername, githubUsers, idx, allKeys,
                   errors, log, githubKeys, resolveErr, keysFrom, stdout, exitCode>>
    /\ UNCHANGED <<fetchVars, sshVars, startVars>>

\* time passes between the steps of the invocations
CacheTick ==
    /\ now < MaxCacheTime
    /\ now' = now + 1
    /\ UNCHANGED <<pc, ttl, userMap, sshUsername, files, githubUsers, idx,
                   allKeys, errors, log, githubKeys, resolveErr, keysFrom,
                   stdout, exitCode>>
    /\ UNCHANGED <<fetchVars, sshVars, cacheVars, startVars>>

NextCache ==
    \/ CacheWriteOpen
    \/ CacheWriteClose
    \/ CacheRead
    \/ CacheClear
    \/ CacheTick

SpecCache == InitAtCache /\ [][NextCache]_vars

----------------------------------------------------------------------------
(* Properties of the cache.                                                *)

\* Read has returned, and no error of the file system
ReadReturned ==
    /\ lastOp.op = "Read"
    /\ lastOp.err.kind # "read_failed"

\* the entries the file Read found holds for the identity it was asked for
EntriesFound ==
    IF lastOp.file.kind = "json"
    THEN SelectSeq(lastOp.file.entries, LAMBDA e : e.GitHubUser = lastOp.user)
    ELSE <<>>

\* C14: Read reports an entry as not expired exactly when
\* now - fetchedAt <= ttl, as expired when now - fetchedAt > ttl, and
\* returns the keys of the entry in both cases.
C14_FreshnessBoundary ==
    (ReadReturned /\ EntriesFound # <<>>) =>
      LET age == lastOp.at - EntriesFound[1].Timestamp IN
      /\ lastOp.err = NoErr
      /\ lastOp.keys = EntriesFound[1].Keys
      /\ age <= ttl => ~lastOp.isExpired
      /\ age > ttl => lastOp.isExpired

\* Read returned the keys of an entry one tick older than the TTL, expired
C14_Witness ==
    /\ ReadReturned
    /\ EntriesFound # <<>>
    /\ lastOp.at - EntriesFound[1].Timestamp = ttl + 1
    /\ lastOp.isExpired
    /\ lastOp.keys # <<>>

\* Read returned the keys of an entry exactly as old as the TTL, not expired
C14_WitnessAtTTL ==
    /\ ReadReturned
    /\ EntriesFound # <<>>
    /\ lastOp.at - EntriesFound[1].Timestamp = ttl
    /\ ~lastOp.isExpired
    /\ lastOp.keys # <<>>

\* C15: after a successful Write(X, keys), every Read(X) before the next
\* Write(X) or Clear(X) returns exactly those keys in the same order, and
\* reports them not expired while the elapsed time is within the TTL.
C15_RoundTrip ==
    (ReadReturned /\ written[lastOp.user].stored) =>
      LET entry == written[lastOp.user] IN
      /\ lastOp.err = NoErr
      /\ lastOp.keys = entry.keys
      /\ lastOp.at - entry.at <= ttl => ~lastOp.isExpired

\* the step is one of Write(Y) (its open, or its write and return) or is
\* Clear(Y)
StepOfWriteOrClear(Y) ==
    \/ writing = NoWriting /\ writing' # NoWriting /\ writing'.user = Y
    \/ writing # NoWriting /\ writing' = NoWriting /\ writing.user = Y
    \/ lastOp' # lastOp /\ lastOp'.op \in {"Write", "Clear"} /\ lastOp'.user = Y

\* what Read(X) returns from a directory, the file system not failing
ReadOf(dir, X) == Read(dir, X, now, ttl, FALSE)

\* C16: for any two distinct identity names X and Y that the mapping
\* parser accepts, Write(Y, ...) and Clear(Y) leave the result of Read(X)
\* unchanged.
C16_PerIdentityIndependent ==
    [][ \A X, Y \in MappedIdentities :
          (X # Y /\ StepOfWriteOrClear(Y)) => ReadOf(files', X) = ReadOf(files, X) ]_vars

\* Read returned absent keys, isExpired = false and no error
ReturnedAbsent ==
    /\ lastOp.keys = <<>>
    /\ ~lastOp.isExpired
    /\ lastOp.err = NoErr

\* Read found no file, or a file that holds no entry for the identity
ReadFoundNoEntry ==
    \/ lastOp.file.kind = "absent"
    \/ lastOp.file.kind = "json" /\ EntriesFound = <<>>

\* the step is Clear(X) finding no file at the path of X
StepOfClearAbsent(X) ==
    /\ lastOp' # lastOp
    /\ lastOp'.op = "Clear"
    /\ lastOp'.user = X
    /\ files[getCacheFilePath(X)].kind = "absent"

\* C17: Read of an identity with no entry returns absent keys,
\* isExpired = false and no error; Clear of an absent entry succeeds; and
\* after Clear(X), Read(X) returns absent until the next Write(X).
C17_AbsentIsNoError ==
    /\ []((ReadReturned /\ ReadFoundNoEntry) => ReturnedAbsent)
    /\ [][\A X \in MappedIdentities : StepOfClearAbsent(X) => lastOp'.err = NoErr]_vars
    /\ []((ReadReturned /\ lastOp.user \in cleared) => ReturnedAbsent)

\* a resolution whose Read found a file that is no JSON document, the file
\* system not failing
FoundCorrupt(e) ==
    /\ e.file.kind = "corrupt"
    /\ e.readErr.kind # "read_failed"

\* C18: a Read that encounters a corrupt or partially written record
\* returns the result of a cache miss, absent keys and no error, not an
\* error.
C18_CorruptReadIsMiss ==
    \A i \in DOMAIN log :
      FoundCorrupt(log[i]) =>
        /\ log[i].cachedKeys = <<>>
        /\ ~log[i].isExpired
        /\ log[i].readErr = NoErr

\* C18, as the code has it: such a Read returns absent keys, isExpired =
\* false and an error, and the resolver goes on as after a miss: it
\* fetches once, and the identity succeeds with the fetched keys or fails
\* with the error of the fetch.
C18_CorruptReadTreatedAsMiss ==
    \A i \in DOMAIN log :
      FoundCorrupt(log[i]) =>
        /\ log[i].cachedKeys = <<>>
        /\ ~log[i].isExpired
        /\ log[i].readErr.kind = "unmarshal_failed"
        /\ log[i].fetchCalls = 1
        /\ log[i].fetchErr = NoErr =>
              log[i].err = NoErr /\ log[i].keys = log[i].fetchedKeys
        /\ log[i].fetchErr # NoErr =>
              /\ log[i].err = [kind |-> "no_cache_available", cause |-> log[i].fetchErr]
              /\ log[i].keys = <<>>

\* the file of an identity was corrupt, its keys were fetched and returned
C18_Witness ==
    \E i \in DOMAIN log :
      /\ FoundCorrupt(log[i])
      /\ log[i].readErr.kind = "unmarshal_failed"
      /\ log[i].fetchErr = NoErr
      /\ log[i].keys = parseKeys(BodyTwoKeys).keys
      /\ log[i].err = NoErr

\* C19: in every interleaving of one invocation's Write(X) with another
\* invocation's Read(X), the reader observes the complete previous record
\* or the complete new one, never an empty or half-written one.
C19_AtomicWrite ==
    (ReadReturned /\ writing # NoWriting /\ writing.user = lastOp.user) =>
      /\ lastOp.file.kind # "corrupt"
      /\ lastOp.err = NoErr

----------------------------------------------------------------------------
(* Properties of the resolver: the cache written after a fetch.            *)

\* C20: when the cache write after a successful fetch fails, the
\* resolution of that identity still succeeds and returns exactly the
\* freshly fetched keys.
C20_WriteFailureKeepsKeys ==
    \A i \in DOMAIN log :
      log[i].writeErr # NoErr =>
        /\ log[i].fetchCalls = 1
        /\ log[i].fetchErr = NoErr
        /\ log[i].err = NoErr
        /\ log[i].keys = log[i].fetchedKeys
        /\ Range(log[i].keys) \subseteq allKeys

\* two keys were fetched, the write of the cache file failed having emptied
\* the file, and the two keys are the result of the identity
C20_Witness ==
    \E i \in DOMAIN log :
      /\ log[i].writeErr # NoErr
      /\ log[i].fetchedKeys = parseKeys(BodyTwoKeys).keys
      /\ log[i].keys = parseKeys(BodyTwoKeys).keys
      /\ log[i].err = NoErr
      /\ files[getCacheFilePath(log[i].user)] = CorruptFile

----------------------------------------------------------------------------
(* Properties of the resolver: the union of the keys of the identities.    *)

\* the identities resolved with success, in mapping order
Succeeded == SelectSeq(log, LAMBDA e : e.err = NoErr)

\* C21: the key list ResolveKeys returns has no two lines of the same
\* normalized key (algorithm token and blob, the comment ignored), and the
\* line kept for a key obtained from several identities is the line of the
\* identity that comes first in mapping order.
C21_UnionDedupNormalized ==
    [][ (pc = "resolved" /\ pc' = "validate") =>
          /\ \A i, j \in DOMAIN githubKeys' :
                DedupKey(githubKeys'[i]) = DedupKey(githubKeys'[j]) => i = j
          /\ \A i \in DOMAIN githubKeys' :
                \E n \in DOMAIN Succeeded :
                  /\ githubKeys'[i] \in Range(Succeeded[n].keys)
                  /\ \A m \in 1..(n - 1) : \A k \in DOMAIN Succeeded[m].keys :
                        DedupKey(Succeeded[m].keys[k]) # DedupKey(githubKeys'[i])
      ]_vars

\* the output texts a run can print once its identities are resolved, the
\* local file being file: one per order in which the map of keys is ranged
\* over
OutputsAfterResolution(file) ==
    {MainOutput(file, result) : result \in Orderings(allKeys)}

\* C22: two runs with the same mapping, the same cache contents, the same
\* fetch outcomes and the same local entries print the same text, the same
\* lines in the same order.
C22_DeterministicOutput ==
    (pc = "resolved" /\ ~AllFailed(allKeys, errors, githubUsers)) =>
      \A file \in LocalFiles :
        \A out1, out2 \in OutputsAfterResolution(file) : out1 = out2


----------------------------------------------------------------------------
(* A whole run of main, from its command line.                             *)

\* strings.ToLower on ASCII letters
Uppers == <<"A","B","C","D","E","F","G","H","I","J","K","L","M",
            "N","O","P","Q","R","S","T","U","V","W","X","Y","Z">>
Lowers == <<"a","b","c","d","e","f","g","h","i","j","k","l","m",
            "n","o","p","q","r","s","t","u","v","w","x","y","z">>

ToLower(s) ==
    [i \in DOMAIN s |->
        IF \E k \in DOMAIN Uppers : Uppers[k] = s[i]
        THEN Lowers[CHOOSE k \in DOMAIN Uppers : Uppers[k] = s[i]]
        ELSE s[i]]

\* ValidateLogLevel
validLevels == << <<"d","e","b","u","g">>, <<"i","n","f","o">>,
                  <<"w","a","r","n">>, <<"e","r","r","o","r">> >>

ValidateLogLevel(level) ==
    IF \E i \in DOMAIN validLevels : ToLower(level) = validLevels[i]
    THEN NoErr
    ELSE [kind |-> "invalid_log_level"]

\* the nil *config.Config
NoConfig == [UserMap |-> <<>>, CacheTTL |-> 0, LogLevel |-> <<>>]

\* parseConfig, had it not tested the cache TTL
parseConfigAnyTTL(userMapStr, cacheTTLMinutes, logLevel) ==
    LET parsed == ParseUserMap(userMapStr) IN
    IF userMapStr = <<>>
    THEN [cfg |-> NoConfig, err |-> [kind |-> "user_map_required"]]
    ELSE IF parsed.err # NoErr
    THEN [cfg |-> NoConfig, err |-> [kind |-> "parse_user_map", cause |-> parsed.err]]
    ELSE IF ValidateLogLevel(logLevel) # NoErr
    THEN [cfg |-> NoConfig, err |-> ValidateLogLevel(logLevel)]
    ELSE [cfg |-> [UserMap |-> parsed.map, CacheTTL |-> cacheTTLMinutes,
                   LogLevel |-> logLevel],
          err |-> NoErr]

\* parseConfig; the clock counts minutes, and so does CacheTTL
parseConfig(userMapStr, cacheTTLMinutes, logLevel) ==
    LET parsed == ParseUserMap(userMapStr) IN
    IF userMapStr = <<>>
    THEN [cfg |-> NoConfig, err |-> [kind |-> "user_map_required"]]
    ELSE IF parsed.err # NoErr
    THEN [cfg |-> NoConfig, err |-> [kind |-> "parse_user_map", cause |-> parsed.err]]
    ELSE IF ValidateLogLevel(logLevel) # NoErr
    THEN [cfg |-> NoConfig, err |-> ValidateLogLevel(logLevel)]
    ELSE IF cacheTTLMinutes < 1
    THEN [cfg |-> NoConfig, err |-> [kind |-> "cache_ttl_too_small"]]
    ELSE [cfg |-> [UserMap |-> parsed.map, CacheTTL |-> cacheTTLMinutes,
                   LogLevel |-> logLevel],
          err |-> NoErr]

\* values of --user-map: repeated names, spaces and a wildcard, a pair
\* repeated, an empty pair among valid ones; then the empty string, a pair
\* without colon after a valid one, a pair with two colons, an empty side on
\* the left and on the right, and empty pairs only
StrPlain     == alice \o <<":">> \o ghA \o <<",">> \o alice \o <<":">> \o ghB
StrWild      == SP \o alice \o SP \o <<":">> \o SP \o ghB \o SP \o <<",">>
                \o Wildcard \o <<":">> \o ghA
StrRepeated  == alice \o <<":">> \o ghA \o <<",">> \o bob \o <<":">> \o ghB
                \o <<",">> \o alice \o <<":">> \o ghA
StrEmptyPair == alice \o <<":">> \o ghA \o <<",", ",">> \o bob \o <<":">> \o ghB
StrNoColon   == alice \o <<":">> \o ghA \o <<",">> \o bob
StrTwoColons == alice \o <<":">> \o ghA \o <<":">> \o ghB
StrNoLocal   == <<":">> \o ghA
StrNoExtern  == alice \o <<":">> \o SP
StrNoPairs   == SP \o <<",">> \o SP

\* "gh.B" and "gh_B", two identities of one sanitized name, and the mapping
\* "alice:gh.B,alice:gh_B"
ghDotB   == <<"g","h",".","B">>
ghUnderB == <<"g","h","_","B">>
StrSameFile == alice \o <<":">> \o ghDotB \o <<",">> \o alice \o <<":">> \o ghUnderB

UserMapStrs == {StrPlain, StrWild, StrRepeated, StrEmptyPair, StrSameFile, <<>>,
                StrNoColon, StrTwoColons, StrNoLocal, StrNoExtern, StrNoPairs}

\* values of --log-level: a level in capitals, and a word that is no level
LogLevels == {<<"I","N","F","O">>, <<"v","e","r","b","o","s","e">>}

\* the positional arguments: none, or the account sshd asks about
Arguments == {<<>>, <<alice>>, <<bob>>}

\* the command lines: flagErr when flag.Parse rejects one of the options
Cmdlines ==
    [flagErr : BOOLEAN, showVersion : BOOLEAN, showHelp : BOOLEAN,
     userMapStr : UserMapStrs, cacheTTLMinutes : 0..MaxTTL,
     logLevel : LogLevels, args : Arguments]

\* the paths of the cache files of the identities of these mappings
StartPaths == CachePaths \cup {getCacheFilePath(ghDotB), getCacheFilePath(ghUnderB)}

\* the cache directory of a run: empty, or holding an entry of ghA, of
\* keys or with a line that is no key
StartCaches ==
    { [path \in StartPaths |-> IF path = getCacheFilePath(ghA) THEN left ELSE NoFile] :
        left \in { NoFile,
                   WriteData(ghA, parseKeys(BodyTwoKeys).keys, 0),
                   WriteData(ghA, <<KeyRsaRemote, LineGarbage>>, 0) } }

\* the process has started: nothing is parsed, resolved or printed
InitStart ==
    /\ pc = "start"
    /\ now = 0
    /\ ttl = 0
    /\ userMap = <<>>
    /\ sshUsername = <<>>
    /\ files \in StartCaches
    /\ githubUsers = <<>>
    /\ idx = 0
    /\ allKeys = {}
    /\ errors = <<>>
    /\ log = <<>>
    /\ githubKeys = <<>>
    /\ resolveErr = NoErr
    /\ keysFrom = <<>>
    /\ stdout = <<>>
    /\ exitCode = 0
    /\ cmdline \in Cmdlines
    /\ configErr = NoErr
    /\ mkdir = FALSE

InitAtStart == InitStart /\ InitFetch /\ InitSsh /\ InitCacheOps

\* the status with which flag.Parse ends the process on a command line it
\* rejects (flag.ExitOnError)
ExitFlagError == 2

\* what --version prints, and the first line of what printHelp prints
VersionText == <<"charon-key version dev\n", "commit: unknown\n", "date: unknown\n">>
HelpText    == <<"charon-key - SSH AuthorizedKeysCommand for GitHub SSH keys\n">>

\* main up to the logger: flag.Parse, --version and --help
ParseFlags ==
    /\ pc = "start"
    /\ IF cmdline.flagErr
       THEN ExitWithCode(ExitFlagError) /\ UNCHANGED stdout
       ELSE IF cmdline.showVersion
       THEN stdout' = stdout \o VersionText /\ ExitWithCode(ExitSuccess)
       ELSE IF cmdline.showHelp
       THEN stdout' = stdout \o HelpText /\ ExitWithCode(ExitSuccess)
       ELSE pc' = "flags" /\ UNCHANGED <<stdout, exitCode>>
    /\ UNCHANGED <<now, ttl, userMap, sshUsername, files, githubUsers, idx,
                   allKeys, errors, log, githubKeys, resolveErr, keysFrom>>
    /\ UNCHANGED <<fetchVars, sshVars, cacheVars, startVars>>

\* main, "Parse configuration" and the SSH username from the arguments
ParseConfig ==
    /\ pc = "flags"
    /\ \E parsed \in {parseConfig(cmdline.userMapStr, cmdline.cacheTTLMinutes,
                                  cmdline.logLevel)} :
         /\ configErr' = parsed.err
         /\ IF parsed.err # NoErr
            THEN /\ ExitWithCode(ExitConfigError)
                 /\ UNCHANGED <<userMap, ttl, sshUsername>>
            ELSE /\ userMap' = parsed.cfg.UserMap
                 /\ ttl' = parsed.cfg.CacheTTL
                 /\ sshUsername' = IF Len(cmdline.args) > 0 THEN cmdline.args[1]
                                   ELSE <<>>
                 /\ pc' = "configured"
                 /\ UNCHANGED exitCode
    /\ UNCHANGED <<now, files, githubUsers, idx, allKeys, errors, log,
                   githubKeys, resolveErr, keysFrom, stdout>>
    /\ UNCHANGED <<fetchVars, sshVars, cacheVars, cmdline, mkdir>>

\* main, "Initialize cache manager": cache.NewManager, whose MkdirAll
\* succeeds or fails
NewCacheManager ==
    /\ pc = "configured"
    /\ mkdir' = TRUE
    /\ \E ok \in BOOLEAN :
         IF ok THEN pc' = "main" /\ UNCHANGED exitCode
         ELSE ExitWithCode(ExitGeneralError)
    /\ UNCHANGED <<now, ttl, userMap, sshUsername, files, githubUsers, idx,
                   allKeys, errors, log, githubKeys, resolveErr, keysFrom,
                   stdout>>
    /\ UNCHANGED <<fetchVars, sshVars, cacheVars, cmdline, configErr>>

NextMain ==
    \/ ParseFlags
    \/ ParseConfig
    \/ NewCacheManager
    \/ ResolveStart
    \/ ResolveUser
    \/ ResolveReturn
    \/ Validate
    \/ Output
    \/ Tick

SpecMain == InitAtStart /\ [][NextMain]_vars


----------------------------------------------------------------------------
(* The mapping parsed from the command line.                               *)

\* the pairs of a mapping string that are not blank, each split at its
\* colons, the parts trimmed
PairsOf(str) ==
    LET kept == SelectSeq(Split(str, ","), LAMBDA p : TrimSpace(p) # <<>>)
    IN  [i \in DOMAIN kept |->
            LET parts == Split(TrimSpace(kept[i]), ":")
            IN  [k \in DOMAIN parts |-> TrimSpace(parts[k])]]

\* the local names of a mapping string, and the external identities paired
\* with a local name, in the order of the string
LocalsOf(str) == {PairsOf(str)[i][1] : i \in DOMAIN PairsOf(str)}

ExternalsOf(str, name) ==
    LET mine == SelectSeq(PairsOf(str), LAMBDA p : p[1] = name)
    IN  [i \in DOMAIN mine |-> mine[i][2]]

\* parseConfig returns a configuration
Configured == pc = "flags" /\ pc' = "configured"

\* C23: when the mapping of the command line is valid, the parsed mapping
\* has exactly the local names of the pairs, and each maps to the external
\* identities paired with it, all of them, in the order of the input,
\* duplicates kept.
C23_RepeatedNamesAccumulate ==
    [][ Configured =>
          /\ DOMAIN userMap' = LocalsOf(cmdline.userMapStr)
          /\ \A name \in DOMAIN userMap' :
                userMap'[name] = ExternalsOf(cmdline.userMapStr, name)
      ]_vars

\* a mapping with a pair repeated around a pair of another name is parsed
C23_Witness ==
    /\ pc = "configured"
    /\ cmdline.userMapStr = StrRepeated
    /\ userMap = (alice :> <<ghA, ghA>>) @@ (bob :> <<ghB>>)


\* a pair without exactly one colon, or with an empty side
Malformed(pair) ==
    LET parts == Split(pair, ":")
    IN  \/ Len(parts) # 2
        \/ \E k \in DOMAIN parts : TrimSpace(parts[k]) = <<>>

\* the pairs of a mapping string, and those of them that are not blank
AllPairs(str) == Split(str, ",")

NonBlankPairs(str) == SelectSeq(AllPairs(str), LAMBDA p : TrimSpace(p) # <<>>)

\* parseConfig returns, and what the claim of a rejection asks of the step
ParseConfigReturns == pc = "flags" /\ pc' # "flags"

RejectedWithoutMapping ==
    /\ configErr' # NoErr
    /\ userMap' = <<>>
    /\ pc' = "exited"
    /\ exitCode' = ExitConfigError

\* C24 as stated: a mapping string that is empty, or has among its
\* comma-separated pairs one without exactly one colon or with an empty
\* side, or has no valid pair, gives a configuration error and no mapping.
C24_AnyMalformedPairRejected ==
    [][ ( /\ ParseConfigReturns
          /\ \/ cmdline.userMapStr = <<>>
             \/ \E i \in DOMAIN AllPairs(cmdline.userMapStr) :
                   Malformed(AllPairs(cmdline.userMapStr)[i])
             \/ \A i \in DOMAIN AllPairs(cmdline.userMapStr) :
                   Malformed(AllPairs(cmdline.userMapStr)[i]) )
        => RejectedWithoutMapping
      ]_vars

\* C24, amended: a mapping string that is empty, or has among its pairs
\* that are not blank one without exactly one colon or with an empty side,
\* or has only blank pairs, gives a configuration error and no mapping.
C24_MalformedNonBlankPairRejected ==
    [][ ( /\ ParseConfigReturns
          /\ \/ cmdline.userMapStr = <<>>
             \/ \E i \in DOMAIN NonBlankPairs(cmdline.userMapStr) :
                   Malformed(NonBlankPairs(cmdline.userMapStr)[i])
             \/ NonBlankPairs(cmdline.userMapStr) = <<>> )
        => RejectedWithoutMapping
      ]_vars

\* a mapping with a pair without colon after a valid pair was rejected
C24_Witness ==
    /\ pc = "exited"
    /\ cmdline.userMapStr = StrNoColon
    /\ configErr = [kind |-> "parse_user_map",
                    cause |-> [kind |-> "invalid_mapping_format"]]
    /\ userMap = <<>>


----------------------------------------------------------------------------
(* The lookup of the account and the start of the resolution.              *)

\* ResolveKeys has looked up the account, which has a name
LookedUp == pc = "main" /\ pc' # "main" /\ sshUsername # <<>>

\* C25: the identities resolved for an account are the list of its own
\* entry when the mapping has one, nothing of the wildcard entry added;
\* else the list of the "*" entry when the mapping has one; else there are
\* none, which ResolveKeys reports.
C25_LookupPrecedence ==
    [][ LookedUp =>
          IF sshUsername \in DOMAIN userMap
          THEN pc' = "loop" /\ githubUsers' = userMap[sshUsername]
          ELSE IF Wildcard \in DOMAIN userMap
          THEN pc' = "loop" /\ githubUsers' = userMap[Wildcard]
          ELSE /\ pc' = "exited"
               /\ githubUsers' = <<>>
               /\ resolveErr' = [kind |-> "no_users_mapped"]
      ]_vars

\* an account with an entry of its own is looked up in a mapping that has
\* a wildcard entry as well
C25_Witness ==
    /\ pc = "loop"
    /\ sshUsername = alice
    /\ userMap = (alice :> <<ghB>>) @@ (Wildcard :> <<ghA>>)
    /\ githubUsers = <<ghB>>

\* an account without entry is looked up in such a mapping
C25_WitnessWildcard ==
    /\ pc = "loop"
    /\ sshUsername = bob
    /\ bob \notin DOMAIN userMap
    /\ githubUsers = <<ghA>>


\* ResolveKeysForSSHUser is called and returns or reaches the loop
ResolveCalled == pc = "main" /\ pc' # "main"

\* the lookup of the account yields no identities
NoIdentities == sshUsername \notin DOMAIN userMap /\ Wildcard \notin DOMAIN userMap

\* C26: for an empty account name, or an account whose lookup yields no
\* identities, ResolveKeys returns an error at once: its loop is not
\* entered, no identity is resolved, no cache file is read or written and
\* FetchKeys is not called.
C26_NoIdentitiesFailsAtOnce ==
    [][ (ResolveCalled /\ (sshUsername = <<>> \/ NoIdentities)) =>
          /\ resolveErr' # NoErr
          /\ pc' = "exited"
          /\ githubUsers' = <<>> /\ idx' = 0
          /\ log = <<>> /\ log' = <<>>
          /\ files' = files
          /\ UNCHANGED <<fetchVars, cacheVars>>
      ]_vars

\* ResolveKeys has failed so for no account name under a mapping with a
\* wildcard entry
C26_Witness ==
    /\ pc = "exited"
    /\ sshUsername = <<>>
    /\ Wildcard \in DOMAIN userMap
    /\ resolveErr = [kind |-> "username_not_set"]
    /\ githubUsers = <<>>

\* and for an account the mapping has no identities for
C26_WitnessUnmapped ==
    /\ pc = "exited"
    /\ sshUsername = bob
    /\ userMap = MapPlain
    /\ resolveErr = [kind |-> "no_users_mapped"]
    /\ githubUsers = <<>>


----------------------------------------------------------------------------
(* Configuration errors and exit statuses.                                 *)

\* the command line passes flag.Parse and asks for neither version nor help
FlagsPass == ~cmdline.flagErr /\ ~cmdline.showVersion /\ ~cmdline.showHelp

\* the mapping is missing or malformed, the log level is none of the four,
\* or the cache TTL is below one minute
BadConfig ==
    \/ cmdline.userMapStr = <<>>
    \/ ParseUserMap(cmdline.userMapStr).err # NoErr
    \/ ToLower(cmdline.logLevel) \notin Range(validLevels)
    \/ cmdline.cacheTTLMinutes < 1

\* C27: a run whose configuration is in error has two steps only, the
\* parsing of the flags and parseConfig, which ends the process with
\* ExitConfigError; neither creates or touches the cache directory, reads
\* or writes a cache file, calls FetchKeys or prints anything.
C27_ConfigErrorBeforeAnyWork ==
    [][ (FlagsPass /\ BadConfig) =>
          /\ \/ pc = "start" /\ pc' = "flags"
             \/ pc = "flags" /\ pc' = "exited" /\ exitCode' = ExitConfigError
                             /\ configErr' # NoErr
          /\ UNCHANGED <<mkdir, files, log, githubUsers, idx, allKeys,
                         githubKeys, stdout>>
          /\ UNCHANGED <<fetchVars, sshVars, cacheVars>>
      ]_vars

\* a run has ended so for a cache TTL of 0 minutes
C27_Witness ==
    /\ pc = "exited"
    /\ exitCode = ExitConfigError
    /\ cmdline.cacheTTLMinutes = 0
    /\ configErr = [kind |-> "cache_ttl_too_small"]
    /\ ~mkdir
    /\ stdout = <<>>

\* and for a log level that is none
C27_WitnessLogLevel ==
    /\ pc = "exited"
    /\ exitCode = ExitConfigError
    /\ configErr = [kind |-> "invalid_log_level"]
    /\ ~mkdir


\* the outcomes of a run that has ended, as the state records them
EndedInConfigError == configErr # NoErr

EndedAllFailed == resolveErr # NoErr /\ resolveErr.kind = "all_failed"

EndedOnInvalidKey == resolveErr = NoErr /\ HasInvalidKey(githubKeys)

EndedWithOutput == keysFrom # <<>>

\* C28: a run ends with the status of its outcome and a status is that of
\* one outcome only: ExitConfigError exactly for a configuration error,
\* ExitNetworkError exactly when every mapped identity failed,
\* ExitInvalidKeyFormat exactly for a resolved line of invalid format, and
\* ExitSuccess only when the merged output was written.
C28_StatusPerOutcome ==
    pc = "exited" =>
      /\ EndedInConfigError <=> exitCode = ExitConfigError
      /\ EndedAllFailed <=> exitCode = ExitNetworkError
      /\ EndedOnInvalidKey <=> exitCode = ExitInvalidKeyFormat
      /\ exitCode = ExitSuccess => EndedWithOutput


----------------------------------------------------------------------------
(* Failures of the cache inside a resolution.                              *)

\* an iteration of the loop of ResolveKeys, and the record it has added
Resolved == pc = "loop" /\ Len(log') = Len(log) + 1

JustResolved == log'[Len(log')]

\* C29: when the Read of an identity fails, on an I/O error or on a file
\* that does not decode, the identity is resolved as on a miss: FetchKeys
\* is called once; if it succeeds its keys are the result, the identity is
\* not recorded as failed and the keys are written back (the file holds
\* them unless that Write fails); if it fails the identity is recorded as
\* failed and the directory is left as it was.
C29_ReadFailureIsMiss ==
    [][ (Resolved /\ JustResolved.readErr # NoErr) =>
          LET e    == JustResolved
              path == getCacheFilePath(e.user)
          IN  /\ e.fetchCalls = 1
              /\ e.cachedKeys = <<>>
              /\ IF e.fetchErr = NoErr
                 THEN /\ e.err = NoErr
                      /\ e.keys = e.fetchedKeys
                      /\ errors' = errors
                      /\ allKeys' = allKeys \cup Range(e.fetchedKeys)
                      /\ IF e.writeErr = NoErr
                         THEN files' = [files EXCEPT
                                          ![path] = WriteData(e.user, e.fetchedKeys, now)]
                         ELSE \/ files' = files
                              \/ files' = [files EXCEPT ![path] = CorruptFile]
                 ELSE /\ e.err # NoErr
                      /\ errors' = Append(errors, [user |-> e.user, err |-> e.err])
                      /\ allKeys' = allKeys
                      /\ files' = files
      ]_vars

\* an identity whose file did not decode has been resolved from the keys
\* fetched, which its file holds now
C29_Witness ==
    /\ pc \in {"loop", "resolved"}
    /\ log # <<>>
    /\ LET e == log[Len(log)] IN
         /\ e.file = CorruptFile
         /\ e.readErr = [kind |-> "unmarshal_failed"]
         /\ e.fetchErr = NoErr
         /\ e.keys # <<>>
         /\ e.err = NoErr
         /\ files[getCacheFilePath(e.user)] = WriteData(e.user, e.keys, e.at)

\* an identity whose file could not be read has failed with the fetch
C29_WitnessFailed ==
    /\ pc \in {"loop", "resolved"}
    /\ log # <<>>
    /\ LET e == log[Len(log)] IN
         /\ e.readErr = [kind |-> "read_failed"]
         /\ e.fetchErr # NoErr
         /\ e.err # NoErr
         /\ errors # <<>>


\* the file holds an entry of the identity
HoldsEntryOf(file, X) ==
    file.kind = "json" /\ \E i \in DOMAIN file.entries : file.entries[i].GitHubUser = X

\* C30: when the Write of an identity's fetched keys returns an I/O error,
\* the entry its file held before is still there: the file is as it was,
\* and a Read that follows returns what it returned before the Write, the
\* keys of that entry and its age.
C30_FailedWriteKeepsEntry ==
    [][ ( /\ Resolved
          /\ JustResolved.writeErr # NoErr
          /\ HoldsEntryOf(JustResolved.file, JustResolved.user) )
        => LET e    == JustResolved
               path == getCacheFilePath(e.user)
           IN  /\ files'[path] = e.file
               /\ ReadOf(files', e.user) = ReadOf(files, e.user)
      ]_vars

----------------------------------------------------------------------------
(* The local file that cannot be read, and the lines the merge drops.      *)

\* C38: when the authorized_keys file cannot be read, or is missing,
\* GetAllKeys returns no error and its output is FormatKeys of the resolved
\* keys without their duplicates: no local entry, and every resolved key
\* whose dedup key no resolved key before it has.
C38_ReadFailureKeepsResolvedKeys ==
    (merge.called /\ merge.file.kind \in {"unreadable", "missing"}) =>
      /\ GetAllKeys(merge.file, merge.githubKeys).err = NoErr
      /\ merge.file.kind = "unreadable" <=> merge.readErr # NoErr
      /\ merge.existingKeys = <<>>
      /\ LocalEntries = <<>>
      /\ merge.output = EachLineEnded(SurvivorsFrom(1))

\* the file cannot be opened and "ssh-rsa AAA remote@h", "ssh-ed25519 BBB"
\* were resolved: both are printed
C38_Witness ==
    /\ merge.called
    /\ merge.file = LocalUnreadable
    /\ merge.readErr # NoErr
    /\ merge.githubKeys = <<KeyRsaRemote, KeyEd>>
    /\ merge.output = KeyRsaRemote \o NL \o KeyEd \o NL

\* the file is missing and the resolved keys repeat one key: it is printed
\* once
C38_WitnessMissing ==
    /\ merge.called
    /\ merge.file = LocalMissing
    /\ merge.readErr = NoErr
    /\ merge.githubKeys = <<KeyRsaRemote, KeyRsaRemote>>
    /\ merge.output = KeyRsaRemote \o NL

\* the token names a key algorithm
IsAlgorithm(token) == \E i \in DOMAIN validPrefixes : token = validPrefixes[i]

\* the algorithm and the key blob of an authorized_keys line: its first two
\* tokens, or the two that follow the options field when the line starts
\* with one
AlgorithmAndBlob(line) ==
    LET tokens == Fields(line) IN
    IF Len(tokens) >= 2 /\ IsAlgorithm(tokens[1]) THEN <<tokens[1], tokens[2]>>
    ELSE IF Len(tokens) >= 3 /\ IsAlgorithm(tokens[2]) THEN <<tokens[2], tokens[3]>>
    ELSE tokens

\* the line is one of the lines of the merged output
Retained(line) == \E k \in DOMAIN merge.mergedKeys : merge.mergedKeys[k] = line

\* C39: MergeKeys drops a line only when a retained line before it has the
\* same algorithm and key blob; two local entries of different key blobs
\* are both in the output, whether or not they start with an options field.
C39_DropsOnlySameKey ==
    merge.called =>
      \A i \in DOMAIN MergeCandidates :
         \/ Retained(MergeCandidates[i])
         \/ \E j \in 1..(i - 1) :
               /\ Retained(MergeCandidates[j])
               /\ AlgorithmAndBlob(MergeCandidates[j]) = AlgorithmAndBlob(MergeCandidates[i])

----------------------------------------------------------------------------
(* What a resolution does to the cache entries.                            *)

\* the entry of the identity in the directory: the first record of its file
\* that carries its name, or none
EntryOf(dir, X) ==
    LET file == dir[getCacheFilePath(X)]
        hits == SelectSeq(file.entries, LAMBDA en : en.GitHubUser = X)
    IN  IF file.kind = "json" /\ hits # <<>> THEN <<hits[1]>> ELSE <<>>

\* C32: when the Read of an identity finds no entry or an expired one and
\* FetchKeys succeeds, the keys of the identity are the fetched keys, and
\* unless Write fails the entry afterwards holds the fetched keys and the
\* time of the call.
C32_RefetchReplacesEntry ==
    [][ ( /\ Resolved
          /\ JustResolved.readErr = NoErr
          /\ ~HoldsEntryOf(JustResolved.file, JustResolved.user) \/ JustResolved.isExpired
          /\ JustResolved.fetchCalls = 1
          /\ JustResolved.fetchErr = NoErr )
        => LET e == JustResolved IN
           /\ e.keys = e.fetchedKeys
           /\ e.writeErr = NoErr =>
                 /\ EntryOf(files', e.user) # <<>>
                 /\ EntryOf(files', e.user)[1].Keys = e.fetchedKeys
                 /\ EntryOf(files', e.user)[1].Timestamp = now
                 /\ ReadOf(files', e.user).keys = e.fetchedKeys
      ]_vars

\* the identities whose cache files the directory of a run holds
StoredIdentities == {ghA, ghB, ghDotB, ghUnderB}

\* C33: the cache entry of an identity, its keys and its fetch timestamp,
\* changes only in the resolution of that identity whose FetchKeys
\* succeeded (a run never calls Clear): a cache hit, a failed fetch, a
\* stale-cache fallback and the resolution of any other identity leave it
\* as it was.
C33_EntryChangesOnlyOnOwnFetch ==
    [][ \A X \in StoredIdentities :
          EntryOf(files', X) # EntryOf(files, X) =>
            /\ Resolved
            /\ JustResolved.user = X
            /\ JustResolved.fetchCalls = 1
            /\ JustResolved.fetchErr = NoErr
      ]_vars

----------------------------------------------------------------------------
(* The loop of ResolveKeys over the identities of the lookup.              *)

\* the identities of the lookup that the loop has resolved without error
SucceededIdentities == {i \in DOMAIN log : log[i].err = NoErr}

\* C34: when the loop of ResolveKeys has ended, every identity of the
\* lookup has been resolved, once per occurrence and in the order of the
\* lookup, whether or not identities before it failed; the failures
\* recorded are those of the identities that failed, so no more than there
\* are identities; and when one identity succeeded ResolveKeys returns a
\* result that holds the keys of every identity that succeeded.
C34_EveryIdentityResolved ==
    [][ (pc = "resolved" /\ pc' # "resolved") =>
          /\ Len(log) = Len(githubUsers)
          /\ \A i \in DOMAIN log : log[i].user = githubUsers[i]
          /\ Len(errors) = Len(log) - Cardinality(SucceededIdentities)
          /\ Len(errors) <= Len(githubUsers)
          /\ SucceededIdentities # {} =>
                /\ pc' = "validate"
                /\ \A i \in SucceededIdentities : Range(log[i].keys) \subseteq Range(githubKeys')
      ]_vars

\* the lookup gave ghA twice; its first resolution failed, its second one
\* succeeded with keys
C34_Witness ==
    /\ pc = "resolved"
    /\ githubUsers = <<ghA, ghA>>
    /\ Len(log) = 2
    /\ log[1].err # NoErr
    /\ log[2].err = NoErr
    /\ log[2].keys # <<>>
    /\ Len(errors) = 1

----------------------------------------------------------------------------
(* The account whose authorized_keys file is merged into the output.       *)

\* C37: the step of main that merges and prints ends with success or with
\* the status of the home directory failure, and when it ends with success
\* the authorized_keys file it merged is the one of the requested account:
\* a run that could not resolve that account's home directory prints
\* nothing read from another account's file and ends with
\* ExitPermissionError.
C37_LocalEntriesOfRequestedAccount ==
    [][ (pc = "merge" /\ pc' # "merge") =>
          /\ exitCode' \in {ExitSuccess, ExitPermissionError}
          /\ exitCode' = ExitSuccess => keysFrom' = sshUsername
          /\ exitCode' = ExitPermissionError => stdout' = stdout /\ keysFrom' = keysFrom
      ]_vars

----------------------------------------------------------------------------
(* The keys parsed from a response body.                                   *)

\* the lines of the body without the surrounding whitespace, blank ones
\* left out
NonBlankLines(body) ==
    LET lines == ScanLines(body)
    IN  SelectSeq([i \in DOMAIN lines |-> TrimSpace(lines[i])], LAMBDA l : l # <<>>)

\* the responses of status 200 that FetchKeys has received
ParsedBodies ==
    {responses[i].body : i \in {j \in DOMAIN responses :
                                   /\ responses[j].kind = "http"
                                   /\ responses[j].status = StatusOK}}

\* C35: parseKeys of the body of a 200 response returns, in the order of
\* the body, the trimmed non-blank lines whose leading token is an
\* algorithm identifier; of a body without non-blank lines, no keys and no
\* error; of a body with non-blank lines of which none is such a key, an
\* error. FetchKeys returns these keys when the response ends its loop.
C35_ParsedKeysCanonical ==
    /\ \A body \in ParsedBodies :
          LET canonical == SelectSeq(NonBlankLines(body), LeadingTokenCanonical)
              parsed    == parseKeys(body)
          IN  IF NonBlankLines(body) # <<>> /\ canonical = <<>>
              THEN parsed.err # NoErr /\ parsed.keys = <<>>
              ELSE parsed.err = NoErr /\ parsed.keys = canonical
    /\ (fpc = "returned" /\ fetched.err = NoErr /\ responses # <<>>) =>
          fetched.keys = SelectSeq(NonBlankLines(responses[Len(responses)].body),
                                   LeadingTokenCanonical)

----------------------------------------------------------------------------
(* The cache directory of identities whose names JSON does not keep.       *)

\* "caf<0xE9>", a name with a byte that is no valid UTF-8, and
\* "caf<U+FFFD>", the name json.Marshal stores for it
NameLatin1   == <<"c", "a", "f", ByteE9>>
NameReplaced == <<"c", "a", "f", RuneError>>

\* "alice:caf<0xE9>,bob:caf<U+FFFD>"
UserMapStrNames ==
    alice \o <<":">> \o NameLatin1 \o <<",">> \o bob \o <<":">> \o NameReplaced

\* an empty cache directory and the parsed user map, no operation called
InitAtNames ==
    /\ InitFetch
    /\ InitSsh
    /\ InitStarted
    /\ pc = "main"
    /\ now = 0
    /\ ttl \in 1..MaxTTL
    /\ sshUsername = alice
    /\ userMap = ParseUserMap(UserMapStrNames).map
    /\ githubUsers = <<>>
    /\ idx = 0
    /\ allKeys = {}
    /\ errors = <<>>
    /\ log = <<>>
    /\ githubKeys = <<>>
    /\ resolveErr = NoErr
    /\ keysFrom = <<>>
    /\ stdout = <<>>
    /\ exitCode = 0
    /\ files = [path \in {getCacheFilePath(u) : u \in MappedIdentities} |-> NoFile]
    /\ writing = NoWriting
    /\ lastOp = NoOp
    /\ written = [u \in MappedIdentities |-> NoEntry]
    /\ cleared = {}

SpecNames == InitAtNames /\ [][NextCache]_vars

\* C36: the keys Read returns for an identity are keys that a Write under
\* the name of that identity stored, together with the time of that Write;
\* they are never the keys of a Write under another name, whether or not
\* the two names have the same file.
C36_ReadReturnsOwnKeys ==
    [][ (lastOp' # lastOp /\ lastOp'.op = "Read" /\ lastOp'.keys # <<>>) =>
          LET X == lastOp'.user IN
          /\ written[X].stored
          /\ lastOp'.keys = [i \in DOMAIN written[X].keys |-> jsonString(written[X].keys[i])]
          /\ lastOp'.file = WriteData(X, written[X].keys, written[X].at)
      ]_vars

----------------------------------------------------------------------------
(* An invocation that resolves its identities while the Write of another   *)
(* invocation rewrites their cache files.                                  *)

\* a user map of one identity
MapSingle == (alice :> <<ghA>>)

\* the directory holds an entry with keys for the identity, written at
\* time 0; no Write has a file open
InitAtRace ==
    /\ InitFetch
    /\ InitSsh
    /\ InitStarted
    /\ pc = "main"
    /\ now = 0
    /\ ttl \in 1..MaxTTL
    /\ sshUsername = alice
    /\ userMap = MapSingle
    /\ githubUsers = <<>>
    /\ idx = 0
    /\ allKeys = {}
    /\ errors = <<>>
    /\ log = <<>>
    /\ githubKeys = <<>>
    /\ resolveErr = NoErr
    /\ keysFrom = <<>>
    /\ stdout = <<>>
    /\ exitCode = 0
    /\ files = [path \in CachePaths |->
                  IF path = getCacheFilePath(ghA)
                  THEN WriteData(ghA, parseKeys(BodyTwoKeys).keys, 0)
                  ELSE NoFile]
    /\ writing = NoWriting
    /\ lastOp = NoOp
    /\ written = [u \in MappedIdentities |->
                    LET entry == EntryOf(files, u)[1]
                    IN  [stored |-> TRUE, keys |-> entry.Keys, at |-> entry.Timestamp]]
    /\ cleared = {}

\* the resolving invocation up to the end of its loop, the Write of the
\* other invocation, and time
NextRace ==
    \/ ResolveStart
    \/ ResolveUser
    \/ CacheWriteOpen
    \/ CacheWriteClose
    \/ Tick

SpecRace == InitAtRace /\ [][NextRace]_vars

\* C31: an identity whose cache file holds a decodable entry, or is being
\* rewritten by the Write of another invocation, and whose FetchKeys
\* fails in this invocation, is resolved from the cache: the invocation
\* gets the keys of the old or of the new entry and does not record the
\* identity as failed.
C31_CachedKeysDuringRewrite ==
    [][ ( /\ Resolved
          /\ JustResolved.fetchCalls = 1
          /\ JustResolved.fetchErr # NoErr
          /\ JustResolved.readErr # [kind |-> "read_failed"]
          /\ \/ HoldsEntryOf(JustResolved.file, JustResolved.user)
             \/ writing.user = JustResolved.user )
        => /\ JustResolved.err = NoErr
           /\ JustResolved.keys # <<>>
           /\ errors' = errors
      ]_vars

====
